---- MODULE Spec2Model ----
(***************************************************************************)
(* Integrity-checked request/response layer of tink-go-gcpkms:             *)
(*   - computeChecksum           (integration/gcpkms/checksum.go)          *)
(*   - grpcAEAD Encrypt/Decrypt  (gcp_kms_grpc_aead.go)                    *)
(*   - GRPCSigner construct/sign (gcp_kms_grpc_signer.go)                  *)
(*   - Client, GetAEAD           (gcp_kms_client.go)                       *)
(*   - gcpAEAD Encrypt/Decrypt   (gcp_kms_aead.go)                         *)
(*                                                                         *)
(* Representation of Go values                                             *)
(*   []byte   a sequence of numbers 0..255 (nil and empty are both << >>)  *)
(*   string   a sequence of one-character strings (AEAD key names), or the *)
(*            list of its pieces between slashes (signer key names)        *)
(*   uint32   << hi, lo >>, two 16-bit limbs (TLC integers are 32-bit)     *)
(*   int64    << w3, w2, w1, w0 >>, four 16-bit limbs, two's complement    *)
(*   *T       << >> for nil, << v >> for a pointer to v                    *)
(*   error    << >> for nil, else the chain of messages, outermost first   *)
(*            (fmt.Errorf("...: %w", err) puts a message before err)       *)
(***************************************************************************)
EXTENDS Integers, Sequences, FiniteSets, TLC

VARIABLES
    aead,       \* the grpcAEAD object: [keyURI]
    aeadCall,   \* the EncryptWithContext / DecryptWithContext invocation in progress
    newSigner,  \* the NewGRPCSigner invocation: its arguments, loop position, result
    signer,     \* the *GRPCSigner returned by NewGRPCSigner, << >> while there is none
    signCall,   \* the SignWithContext invocation in progress on signer
    signCalls,  \* the SignWithContext invocations of concurrent callers of signer
    roundTrip,  \* a caller that encrypts and then decrypts what it got
    checksums,  \* the most recent computeChecksum calls: input and value
    client,     \* the NewClient call, the *Client it returned, the GetAEAD call on it
    gcpCall     \* the Encrypt / Decrypt invocation on a gcpAEAD

vars ==
    <<aead, aeadCall, newSigner, signer, signCall, signCalls, roundTrip, checksums,
      client, gcpCall>>

(***************************************************************************)
(* Bounds of the model.                                                    *)
(***************************************************************************)
\* Longest plaintext / ciphertext / associated data / short sign input.
MaxPayloadLen == 1

(***************************************************************************)
(* Go values.                                                              *)
(***************************************************************************)
Nil == << >>
Ptr(v) == <<v>>
Deref(p) == p[1]

NoError == << >>
\* fmt.Errorf("msg: %w", err): a new error whose chain continues with err.
Wrap(msg, err) == <<msg>> \o err
\* errors.New(msg) / fmt.Errorf without %w.
NewError(msg) == <<msg>>
\* errors.Is(err, target) for a sentinel target created by errors.New.
ErrorsIs(err, target) == \E i \in 1..Len(err) : err[i] = target

\* strings.HasPrefix(s, prefix)
HasPrefix(s, prefix) ==
    /\ Len(s) >= Len(prefix)
    /\ SubSeq(s, 1, Len(prefix)) = prefix

\* bytes.Repeat(b, n), built by doubling as the library does.
RECURSIVE Repeat(_, _)
Repeat(b, n) ==
    IF n = 0 THEN << >>
    ELSE LET h == Repeat(b, n \div 2)
         IN IF n % 2 = 0 THEN h \o h ELSE h \o h \o b

\* All byte strings over the alphabet A of length at most n.
RECURSIVE BytesUpTo(_, _)
BytesUpTo(A, n) ==
    IF n = 0 THEN {<< >>}
    ELSE LET shorter == BytesUpTo(A, n - 1)
         IN shorter \cup {Append(s, b) : s \in shorter, b \in A}

(***************************************************************************)
(* hash/crc32 with the Castagnoli polynomial, as computeChecksum uses it.  *)
(***************************************************************************)
RECURSIVE XorBits(_, _)
XorBits(a, b) ==
    IF a = 0 THEN b
    ELSE IF b = 0 THEN a
    ELSE ((a + b) % 2) + 2 * XorBits(a \div 2, b \div 2)

\* a ^ b on bytes, tabulated once.
xorByte == [a \in 0..255 |-> [b \in 0..255 |-> XorBits(a, b)]]

Xor16(a, b) == xorByte[a \div 256][b \div 256] * 256 + xorByte[a % 256][b % 256]
\* uint32 operations on << hi, lo >>.
Xor32(a, b) == <<Xor16(a[1], b[1]), Xor16(a[2], b[2])>>
Shr32(a, n) == <<a[1] \div (2^n), (a[2] \div (2^n)) + (a[1] % (2^n)) * (2^(16 - n))>>
Not32(a) == <<65535 - a[1], 65535 - a[2]>>

\* crc32.Castagnoli = 0x82f63b78
Castagnoli == <<33526, 15224>>

\* crc32.MakeTable: entry i is i shifted right 8 times, xor-ing the polynomial
\* in whenever the bit shifted out is 1.
RECURSIVE tableEntry(_, _)
tableEntry(crc, j) ==
    IF j = 0 THEN crc
    ELSE LET next == IF crc[2] % 2 = 1 THEN Xor32(Shr32(crc, 1), Castagnoli)
                     ELSE Shr32(crc, 1)
         IN IF next \in {next} THEN tableEntry(next, j - 1) ELSE next

crc32cTable == [i \in 0..255 |-> tableEntry(<<0, i>>, 8)]

\* crc32 update of crc over p[lo..hi]: for each byte v in order,
\*   crc = tab[byte(crc) ^ v] ^ (crc >> 8).
\* The range is halved instead of walked so that the evaluation depth stays
\* logarithmic; the left half is evaluated before the right half starts.
RECURSIVE crcUpdate(_, _, _, _)
crcUpdate(crc, p, lo, hi) ==
    IF lo > hi THEN crc
    ELSE IF lo = hi
         THEN Xor32(crc32cTable[xorByte[crc[2] % 256][p[lo]]], Shr32(crc, 8))
    ELSE LET mid == (lo + hi) \div 2
             left == crcUpdate(crc, p, lo, mid)
         IN IF left \in {left} THEN crcUpdate(left, p, mid + 1, hi) ELSE left

\* crc32.Checksum(value, crc32cTable): ^update(^0, value)
crc32Checksum(value) == Not32(crcUpdate(<<65535, 65535>>, value, 1, Len(value)))

\* int64(int32(x)): the conversion through the signed 32-bit type, which
\* extends the sign bit.
Int64FromInt32(u) ==
    IF u[1] >= 32768 THEN <<65535, 65535, u[1], u[2]>> ELSE <<0, 0, u[1], u[2]>>

\* int64(x) of a uint32 x: zero extension.
Int64FromUint32(u) == <<0, 0, u[1], u[2]>>
Int64Zero == <<0, 0, 0, 0>>
Int64One == <<0, 0, 0, 1>>

\* (*wrapperspb.Int64Value).GetValue(): 0 for a nil wrapper.
GetValue(w) == IF w = Nil THEN Int64Zero ELSE Deref(w)

(***************************************************************************)
(* checksum.go                                                             *)
(***************************************************************************)
\* var kmsMaxSignDataSize = 64 * 1024   (gcp_kms_grpc_signer.go)
kmsMaxSignDataSize == 64 * 1024

\* The two long sign inputs of the model: exactly at the size limit, and one
\* byte over it.
DataAtLimit == Repeat(<<65>>, kmsMaxSignDataSize)
DataOverLimit == Repeat(<<65>>, kmsMaxSignDataSize + 1)

\* crc32Checksum of the input at the size limit, evaluated once per run
\* (a 64 KiB CRC takes TLC seconds); equal to crc32Checksum(v) by definition.
crcOfLong == [v \in {DataAtLimit} |-> crc32Checksum(v)]

\* func computeChecksum(value []byte) int64
computeChecksum(value) ==
    Int64FromUint32(IF value \in DOMAIN crcOfLong THEN crcOfLong[value]
                    ELSE crc32Checksum(value))

(***************************************************************************)
(* Inputs and remote answers of the AEAD.                                  *)
(***************************************************************************)
\* Plaintexts, ciphertexts and associated data: the empty one included.
Payloads == BytesUpTo({0, 97}, MaxPayloadLen)

\* The values of a checksum field of a response: absent, the right checksum
\* of some payload (0 for the empty payload), or the wrong value 1.
ChecksumFields ==
    {Nil} \cup {Ptr(c) : c \in {computeChecksum(p) : p \in Payloads} \cup {Int64One}}

\* Key names of the AEAD ("k", "k/1") and names a response may carry.
AeadKeyURIs == {<<"k">>, <<"k", "/", "1">>}
ResponseNames == {<< >>, <<"k">>, <<"k", "/", "1">>, <<"x">>}

\* The error a failed network call returns.
TransportError == NewError("rpc error: code = Unavailable")

\* kmspb.EncryptResponse
EncryptResponses ==
    [name : ResponseNames,
     ciphertext : Payloads,
     ciphertext_crc32c : ChecksumFields,
     verified_plaintext_crc32c : BOOLEAN,
     verified_additional_authenticated_data_crc32c : BOOLEAN]

\* kmspb.DecryptResponse
DecryptResponses ==
    [plaintext : Payloads,
     plaintext_crc32c : ChecksumFields,
     used_primary : BOOLEAN]

\* What a.kms.Encrypt / a.kms.Decrypt returns: (resp, nil) or (nil, err).
RpcOutcomes(Responses) ==
    {[resp |-> Ptr(r), err |-> NoError] : r \in Responses}
        \cup {[resp |-> Nil, err |-> TransportError]}

ErrPlaintextUnverified ==
    NewError("KMS request is missing the checksum field plaintext_crc32c")
ErrAADUnverified ==
    NewError("KMS request is missing the checksum field additional_authenticated_data_crc32c")
ErrEncryptKeyName ==
    NewError("the requested key name does not match the key name in the KMS response")
ErrCiphertextChecksum ==
    NewError("KMS response corrupted in transit: ciphertext_crc32c did not match ciphertext")
ErrPlaintextChecksum ==
    NewError("KMS response corrupted in transit: plaintext_crc32c did not match plaintext")

Return(val, err) == [val |-> val, err |-> err]

(***************************************************************************)
(* grpcAEAD                                                                *)
(***************************************************************************)
\* newGRPCAEAD(keyURI, kms)
newGRPCAEAD(keyURI) == [keyURI |-> keyURI]

\* The encrypt request with the checksum of the plaintext in both checksum
\* fields.
EncryptRequestPlaintextChecksumTwice(a, plaintext, associatedData) ==
    [name |-> a.keyURI,
     plaintext |-> plaintext,
     plaintext_crc32c |-> Ptr(computeChecksum(plaintext)),
     additional_authenticated_data |-> associatedData,
     additional_authenticated_data_crc32c |-> Ptr(computeChecksum(plaintext))]

\* EncryptWithContext, the request it builds.
EncryptRequest(a, plaintext, associatedData) ==
    [name |-> a.keyURI,
     plaintext |-> plaintext,
     plaintext_crc32c |-> Ptr(computeChecksum(plaintext)),
     additional_authenticated_data |-> associatedData,
     additional_authenticated_data_crc32c |-> Ptr(computeChecksum(associatedData))]

\* EncryptWithContext without the comparison of ciphertext_crc32c: the fault
\* the ciphertext check guards against.
EncryptWithContextResultNoCiphertextChecksum(a, out) ==
    IF out.err # NoError THEN Return(Nil, out.err)
    ELSE LET resp == Deref(out.resp) IN
         IF ~resp.verified_plaintext_crc32c
            THEN Return(Nil, ErrPlaintextUnverified)
         ELSE IF ~resp.verified_additional_authenticated_data_crc32c
            THEN Return(Nil, ErrAADUnverified)
         ELSE IF ~HasPrefix(resp.name, a.keyURI)
            THEN Return(Nil, ErrEncryptKeyName)
         ELSE Return(resp.ciphertext, NoError)

\* EncryptWithContext with the arguments of strings.HasPrefix exchanged.
EncryptWithContextResultPrefixExchanged(a, out) ==
    IF out.err # NoError THEN Return(Nil, out.err)
    ELSE LET resp == Deref(out.resp) IN
         IF ~resp.verified_plaintext_crc32c
            THEN Return(Nil, ErrPlaintextUnverified)
         ELSE IF ~resp.verified_additional_authenticated_data_crc32c
            THEN Return(Nil, ErrAADUnverified)
         ELSE IF ~HasPrefix(a.keyURI, resp.name)
            THEN Return(Nil, ErrEncryptKeyName)
         ELSE IF GetValue(resp.ciphertext_crc32c) # computeChecksum(resp.ciphertext)
            THEN Return(Nil, ErrCiphertextChecksum)
         ELSE Return(resp.ciphertext, NoError)

\* EncryptWithContext without the test of the associated-data flag.
EncryptWithContextResultNoAADFlag(a, out) ==
    IF out.err # NoError THEN Return(Nil, out.err)
    ELSE LET resp == Deref(out.resp) IN
         IF ~resp.verified_plaintext_crc32c
            THEN Return(Nil, ErrPlaintextUnverified)
         ELSE IF ~HasPrefix(resp.name, a.keyURI)
            THEN Return(Nil, ErrEncryptKeyName)
         ELSE IF GetValue(resp.ciphertext_crc32c) # computeChecksum(resp.ciphertext)
            THEN Return(Nil, ErrCiphertextChecksum)
         ELSE Return(resp.ciphertext, NoError)

\* EncryptWithContext from the return of a.kms.Encrypt on: what it returns
\* for the outcome (resp, err) of the call.
EncryptWithContextResult(a, out) ==
    IF out.err # NoError THEN Return(Nil, out.err)
    ELSE LET resp == Deref(out.resp) IN
         IF ~resp.verified_plaintext_crc32c
            THEN Return(Nil, ErrPlaintextUnverified)
         ELSE IF ~resp.verified_additional_authenticated_data_crc32c
            THEN Return(Nil, ErrAADUnverified)
         ELSE IF ~HasPrefix(resp.name, a.keyURI)
            THEN Return(Nil, ErrEncryptKeyName)
         ELSE IF GetValue(resp.ciphertext_crc32c) # computeChecksum(resp.ciphertext)
            THEN Return(Nil, ErrCiphertextChecksum)
         ELSE Return(resp.ciphertext, NoError)

\* The decrypt request built without the associated data.
DecryptRequestWithoutAssociatedData(a, ciphertext, associatedData) ==
    [name |-> a.keyURI,
     ciphertext |-> ciphertext,
     ciphertext_crc32c |-> Ptr(computeChecksum(ciphertext)),
     additional_authenticated_data |-> << >>,
     additional_authenticated_data_crc32c |-> Ptr(computeChecksum(<< >>))]

\* DecryptWithContext, the request it builds.
DecryptRequest(a, ciphertext, associatedData) ==
    [name |-> a.keyURI,
     ciphertext |-> ciphertext,
     ciphertext_crc32c |-> Ptr(computeChecksum(ciphertext)),
     additional_authenticated_data |-> associatedData,
     additional_authenticated_data_crc32c |-> Ptr(computeChecksum(associatedData))]

\* DecryptWithContext without the comparison of plaintext_crc32c.
DecryptWithContextResultNoPlaintextChecksum(a, out) ==
    IF out.err # NoError THEN Return(Nil, out.err)
    ELSE Return(Deref(out.resp).plaintext, NoError)

\* DecryptWithContext returning the plaintext next to the checksum error.
DecryptWithContextResultBytesWithError(a, out) ==
    IF out.err # NoError THEN Return(Nil, out.err)
    ELSE LET resp == Deref(out.resp) IN
         IF GetValue(resp.plaintext_crc32c) # computeChecksum(resp.plaintext)
            THEN Return(resp.plaintext, ErrPlaintextChecksum)
         ELSE Return(resp.plaintext, NoError)

\* DecryptWithContext that also wants the answer to come from the primary key
\* version.
DecryptWithContextResultPrimaryOnly(a, out) ==
    IF out.err # NoError THEN Return(Nil, out.err)
    ELSE LET resp == Deref(out.resp) IN
         IF ~resp.used_primary
            THEN Return(Nil, ErrEncryptKeyName)
         ELSE IF GetValue(resp.plaintext_crc32c) # computeChecksum(resp.plaintext)
            THEN Return(Nil, ErrPlaintextChecksum)
         ELSE Return(resp.plaintext, NoError)

\* DecryptWithContext from the return of a.kms.Decrypt on.
DecryptWithContextResult(a, out) ==
    IF out.err # NoError THEN Return(Nil, out.err)
    ELSE LET resp == Deref(out.resp) IN
         IF GetValue(resp.plaintext_crc32c) # computeChecksum(resp.plaintext)
            THEN Return(Nil, ErrPlaintextChecksum)
         ELSE Return(resp.plaintext, NoError)

NoAeadCall ==
    [op |-> "none", pc |-> "idle", input |-> << >>, associatedData |-> << >>,
     req |-> Nil, out |-> Nil, ret |-> Nil, rpcs |-> 0]

\* EncryptWithContext up to the call a.kms.Encrypt(ctx, req).
EncryptWithContext(plaintext, associatedData) ==
    /\ aeadCall.pc = "idle"
    /\ aeadCall' = [op |-> "Encrypt", pc |-> "rpc", input |-> plaintext,
                    associatedData |-> associatedData,
                    req |-> Ptr(EncryptRequest(aead, plaintext, associatedData)),
                    out |-> Nil, ret |-> Nil, rpcs |-> 1]
    /\ UNCHANGED <<aead, newSigner, signer, signCall, signCalls, roundTrip, checksums,
                 client, gcpCall>>

\* a.kms.Encrypt returns out; EncryptWithContext checks it and returns.
EncryptWithContextReturn(out) ==
    /\ aeadCall.pc = "rpc"
    /\ aeadCall.op = "Encrypt"
    /\ aeadCall' = [aeadCall EXCEPT !.pc = "returned", !.out = Ptr(out),
                                   !.ret = Ptr(EncryptWithContextResult(aead, out))]
    /\ UNCHANGED <<aead, newSigner, signer, signCall, signCalls, roundTrip, checksums,
                 client, gcpCall>>

\* DecryptWithContext up to the call a.kms.Decrypt(ctx, req).
DecryptWithContext(ciphertext, associatedData) ==
    /\ aeadCall.pc = "idle"
    /\ aeadCall' = [op |-> "Decrypt", pc |-> "rpc", input |-> ciphertext,
                    associatedData |-> associatedData,
                    req |-> Ptr(DecryptRequest(aead, ciphertext, associatedData)),
                    out |-> Nil, ret |-> Nil, rpcs |-> 1]
    /\ UNCHANGED <<aead, newSigner, signer, signCall, signCalls, roundTrip, checksums,
                 client, gcpCall>>

\* a.kms.Decrypt returns out; DecryptWithContext checks it and returns.
DecryptWithContextReturn(out) ==
    /\ aeadCall.pc = "rpc"
    /\ aeadCall.op = "Decrypt"
    /\ aeadCall' = [aeadCall EXCEPT !.pc = "returned", !.out = Ptr(out),
                                   !.ret = Ptr(DecryptWithContextResult(aead, out))]
    /\ UNCHANGED <<aead, newSigner, signer, signCall, signCalls, roundTrip, checksums,
                 client, gcpCall>>

(***************************************************************************)
(* gcp_kms_grpc_signer.go: names, algorithms, protection levels.           *)
(***************************************************************************)
\* A key name of the signer is kept as strings.Split(name, "/"), the pieces
\* between its slashes: "a/b" is <<"a", "b">>, "" is <<"">>, "a/" is <<"a", "">>.
\* No piece holds a slash, so equal names are equal lists and [^/]+ matches
\* exactly the pieces that are not empty.

\* The match of the same expression without its closing $: pieces may follow
\* the version.
kmsKeyNameRegexMatchUnanchored(keyName) ==
    /\ Len(keyName) >= 10
    /\ keyName[1] = "projects"
    /\ keyName[3] = "locations"
    /\ keyName[5] = "keyRings"
    /\ keyName[7] = "cryptoKeys"
    /\ keyName[9] = "cryptoKeyVersions"
    /\ \A k \in {2, 4, 6, 8, 10} : keyName[k] # ""

\* kmsKeyNameRegex.MatchString(keyName) for
\* ^projects/[^/]+/locations/[^/]+/keyRings/[^/]+/cryptoKeys/[^/]+/cryptoKeyVersions/[^/]+$
kmsKeyNameRegexMatch(keyName) ==
    /\ Len(keyName) = 10
    /\ keyName[1] = "projects"
    /\ keyName[3] = "locations"
    /\ keyName[5] = "keyRings"
    /\ keyName[7] = "cryptoKeys"
    /\ keyName[9] = "cryptoKeyVersions"
    /\ \A k \in {2, 4, 6, 8, 10} : keyName[k] # ""

\* "projects/P/locations/L/keyRings/R/cryptoKeys/K/cryptoKeyVersions/" + version
KeyVersionName(version) ==
    <<"projects", "P", "locations", "L", "keyRings", "R", "cryptoKeys", "K",
      "cryptoKeyVersions">> \o version

KeyName1 == KeyVersionName(<<"1">>)
\* KeyName1 + "/x": another key name, which KeyName1 is a prefix of.
KeyName1x == KeyVersionName(<<"1", "x">>)
\* "", "Wrong/Key/Name", a name with an empty version, a name with a piece too many.
MalformedKeyNames ==
    {<<"">>,
     <<"Wrong", "Key", "Name">>,
     KeyVersionName(<<"">>),
     KeyName1x}
SignerKeyNames == {KeyName1} \cup MalformedKeyNames
SignerResponseNames == {KeyName1, KeyName1x}

\* isSupported(algorithm): the cases of its switch.
SupportedAlgorithms ==
    {"EC_SIGN_ED25519",
     "EC_SIGN_P256_SHA256",
     "EC_SIGN_P384_SHA384",
     "EC_SIGN_SECP256K1_SHA256",
     "RSA_SIGN_PSS_2048_SHA256",
     "RSA_SIGN_PSS_3072_SHA256",
     "RSA_SIGN_PSS_4096_SHA256",
     "RSA_SIGN_PSS_4096_SHA512",
     "RSA_SIGN_PKCS1_2048_SHA256",
     "RSA_SIGN_PKCS1_3072_SHA256",
     "RSA_SIGN_PKCS1_4096_SHA256",
     "RSA_SIGN_PKCS1_4096_SHA512",
     "RSA_SIGN_RAW_PKCS1_2048",
     "RSA_SIGN_RAW_PKCS1_3072",
     "RSA_SIGN_RAW_PKCS1_4096"}
isSupported(algorithm) == algorithm \in SupportedAlgorithms

\* The algorithms a public key may carry in the model: the supported ones, an
\* RSA-OAEP decryption algorithm and the zero value of the enum.
Algorithms ==
    SupportedAlgorithms
        \cup {"RSA_DECRYPT_OAEP_2048_SHA256", "CRYPTO_KEY_VERSION_ALGORITHM_UNSPECIFIED"}

\* kmspb.ProtectionLevel
ProtectionLevels ==
    {"PROTECTION_LEVEL_UNSPECIFIED", "SOFTWARE", "HSM", "EXTERNAL", "EXTERNAL_VPC"}

\* requiresDataForSign deciding by the algorithm alone.
requiresDataForSignByAlgorithm(algorithm, protectionLevel) ==
    algorithm \in {"EC_SIGN_ED25519",
                   "RSA_SIGN_RAW_PKCS1_2048",
                   "RSA_SIGN_RAW_PKCS1_3072",
                   "RSA_SIGN_RAW_PKCS1_4096"}

\* requiresDataForSign(algorithm, protectionLevel)
requiresDataForSign(algorithm, protectionLevel) ==
    IF algorithm \in {"EC_SIGN_ED25519",
                      "RSA_SIGN_RAW_PKCS1_2048",
                      "RSA_SIGN_RAW_PKCS1_3072",
                      "RSA_SIGN_RAW_PKCS1_4096"}
        THEN TRUE
    ELSE IF protectionLevel \in {"EXTERNAL", "EXTERNAL_VPC"}
        THEN TRUE
    ELSE FALSE

\* var errorChecksumMismatch = errors.New("checksum verification failed")
errorChecksumMismatch == "checksum verification failed"

(***************************************************************************)
(* GRPCSigner construction: tryGetPublicKey, getPublicKey, NewGRPCSigner.  *)
(***************************************************************************)
\* kmspb.ChecksummedData of a public key: the key bytes are empty or "p";
\* the checksum is absent, the checksum of "p", or the wrong value 1.
PublicKeyBytes == <<112>>
PublicKeyData ==
    [data : {<< >>, PublicKeyBytes},
     crc32c_checksum : {Nil, Ptr(computeChecksum(PublicKeyBytes)), Ptr(Int64One)}]

\* kmspb.PublicKey
PublicKeys ==
    [name : SignerResponseNames,
     public_key : PublicKeyData,
     algorithm : Algorithms,
     protection_level : ProtectionLevels]

ErrPublicKeyFormat == NewError("public key format is required")
ErrKeyNameFormat == NewError("keyName does not match the expected format")
ErrNilClient == NewError("kms client cannot be nil")
ErrPublicKeyName ==
    NewError("the response key name does not match the requested key name")
ErrUnsupportedAlgorithm == NewError("the given algorithm is not supported")

\* The request getPublicKey builds: {Name: keyName, PublicKeyFormat: PEM}.
GetPublicKeyRequest(keyName) == [name |-> keyName, public_key_format |-> "PEM"]

\* tryGetPublicKey before its call: it refuses a request without key format.
tryGetPublicKeyRefuses(req) == req.public_key_format = "PUBLIC_KEY_FORMAT_UNSPECIFIED"

\* tryGetPublicKey from the return of kms.GetPublicKey on: (response, err).
tryGetPublicKey(out) ==
    IF out.err # NoError
        THEN [response |-> Nil, err |-> Wrap("GCP KMS GetPublicKey failed", out.err)]
    ELSE LET response == Deref(out.resp)
             checksumReceived == GetValue(response.public_key.crc32c_checksum)
             checksumCalculated == computeChecksum(response.public_key.data)
         IN IF checksumReceived # checksumCalculated
                THEN [response |-> Nil,
                      err |-> Wrap("checksum verification failed: recieved, calculated",
                                   NewError(errorChecksumMismatch))]
            ELSE [response |-> out.resp, err |-> NoError]

\* for i := 0; i < 3; i++
getPublicKeyAttempts == 3

\* The loop with one round more: for i := 0; i <= 3; i++.
getPublicKeyRetriesOneMore(i, r) ==
    /\ r.err # NoError
    /\ ErrorsIs(r.err, errorChecksumMismatch)
    /\ i + 1 < getPublicKeyAttempts + 1

\* The loop going on after any error, not only after a checksum mismatch.
getPublicKeyRetriesAnyError(i, r) ==
    /\ r.err # NoError
    /\ i + 1 < getPublicKeyAttempts

\* The loop going on also after a response that names another key than
\* KeyName1.
getPublicKeyRetriesOnOtherName(i, r) ==
    /\ \/ r.err # NoError /\ ErrorsIs(r.err, errorChecksumMismatch)
       \/ r.err = NoError /\ Deref(r.response).name # KeyName1
    /\ i + 1 < getPublicKeyAttempts

\* The loop without its bound: for i := 0; ; i++.
getPublicKeyRetriesUnbounded(i, r) ==
    /\ r.err # NoError
    /\ ErrorsIs(r.err, errorChecksumMismatch)

\* getPublicKey, the loop body after tryGetPublicKey returned r in round i:
\* TRUE when the loop goes on to another tryGetPublicKey.
getPublicKeyRetries(i, r) ==
    /\ r.err # NoError
    /\ ErrorsIs(r.err, errorChecksumMismatch)
    /\ i + 1 < getPublicKeyAttempts

\* The loop keeping the error of an earlier round when a later round succeeds.
getPublicKeyLoopVarsKeepingError(prev, r) ==
    IF prev.err # NoError /\ r.err = NoError
        THEN [response |-> Nil, err |-> prev.err]
        ELSE r

\* getPublicKey's variables response and err: nil before the first round,
\* and after the assignment response, err = tryGetPublicKey(...) of a round,
\* which found them holding prev and got r from the call.
getPublicKeyLoopVarsInit == [response |-> Nil, err |-> NoError]
getPublicKeyLoopVars(prev, r) == r

\* getPublicKey without the comparison of the response's key name.
getPublicKeyResultAnyName(keyName, r) ==
    IF r.err # NoError THEN [response |-> Nil, err |-> r.err]
    ELSE [response |-> r.response, err |-> NoError]

\* getPublicKey after its loop, with the last (response, err) of tryGetPublicKey.
getPublicKeyResult(keyName, r) ==
    IF r.err # NoError THEN [response |-> Nil, err |-> r.err]
    ELSE IF Deref(r.response).name # keyName
        THEN [response |-> Nil, err |-> ErrPublicKeyName]
    ELSE [response |-> r.response, err |-> NoError]

\* NewGRPCSigner after getPublicKey returned g: (*GRPCSigner, error).
NewGRPCSignerResult(keyName, kms, g) ==
    IF g.err # NoError THEN [signer |-> Nil, err |-> g.err]
    ELSE IF ~isSupported(Deref(g.response).algorithm)
        THEN [signer |-> Nil, err |-> ErrUnsupportedAlgorithm]
    ELSE [signer |-> Ptr([keyName |-> keyName, kms |-> kms,
                          publicKey |-> Deref(g.response)]),
          err |-> NoError]

\* The KMS client arguments: nil, or a client.
KmsClients == {Nil, Ptr("KeyManagementClient")}

\* What kms.GetPublicKey returns.
GetPublicKeyOutcomes == RpcOutcomes(PublicKeys)

\* tries: the error of each tryGetPublicKey call so far; out: what the
\* kms.GetPublicKey call that ended the loop returned; err: the error
\* NewGRPCSigner returned (the handle it returned is the variable signer).
NoNewSigner ==
    [pc |-> "idle", keyName |-> <<"">>, kms |-> Nil, i |-> 0, req |-> Nil,
     out |-> Nil, tries |-> << >>, err |-> NoError, rpcs |-> 0]

\* NewGRPCSigner up to the first kms.GetPublicKey call of getPublicKey.
NewGRPCSigner(keyName, kms) ==
    /\ newSigner.pc = "idle"
    /\ LET fail(err) == [NoNewSigner EXCEPT !.pc = "returned", !.keyName = keyName,
                                            !.kms = kms, !.err = err]
           req == GetPublicKeyRequest(keyName)
       IN newSigner' =
            IF ~kmsKeyNameRegexMatch(keyName) THEN fail(ErrKeyNameFormat)
            ELSE IF kms = Nil THEN fail(ErrNilClient)
            ELSE IF tryGetPublicKeyRefuses(req) THEN fail(ErrPublicKeyFormat)
            ELSE [NoNewSigner EXCEPT !.pc = "rpc", !.keyName = keyName, !.kms = kms,
                                     !.req = Ptr(req), !.rpcs = 1]
    /\ UNCHANGED <<aead, aeadCall, signer, signCall, signCalls, roundTrip, checksums,
                 client, gcpCall>>

\* kms.GetPublicKey returns out in round newSigner.i of getPublicKey's loop:
\* either the loop calls tryGetPublicKey again, or getPublicKey and
\* NewGRPCSigner run to their return.
GetPublicKeyReturn(out) ==
    /\ newSigner.pc = "rpc"
    /\ LET prev == IF newSigner.tries = << >> THEN getPublicKeyLoopVarsInit
                   ELSE [response |-> Nil,
                         err |-> newSigner.tries[Len(newSigner.tries)]]
           r == getPublicKeyLoopVars(prev, tryGetPublicKey(out))
           tries == Append(newSigner.tries, r.err)
       IN IF getPublicKeyRetries(newSigner.i, r)
             THEN /\ newSigner' = [newSigner EXCEPT !.i = @ + 1, !.tries = tries,
                                                    !.rpcs = @ + 1]
                  /\ signer' = signer
          ELSE LET last == IF r.err # NoError /\ ErrorsIs(r.err, errorChecksumMismatch)
                              THEN newSigner.i + 1 ELSE newSigner.i
                   res == NewGRPCSignerResult(newSigner.keyName, newSigner.kms,
                              getPublicKeyResult(newSigner.keyName, r))
               IN /\ newSigner' = [newSigner EXCEPT !.pc = "returned", !.i = last,
                                                    !.out = Ptr(out), !.tries = tries,
                                                    !.err = res.err]
                  /\ signer' = res.signer
    /\ UNCHANGED <<aead, aeadCall, signCall, signCalls, roundTrip, checksums,
                 client, gcpCall>>

(***************************************************************************)
(* GRPCSigner.SignWithContext and the request it builds.                   *)
(***************************************************************************)
\* digestHashForAlgorithm without the case of EC_SIGN_P384_SHA384.
digestHashForAlgorithmWithoutSHA384(algorithm) ==
    IF algorithm \in {"EC_SIGN_P256_SHA256",
                      "EC_SIGN_SECP256K1_SHA256",
                      "RSA_SIGN_PSS_2048_SHA256",
                      "RSA_SIGN_PSS_3072_SHA256",
                      "RSA_SIGN_PSS_4096_SHA256",
                      "RSA_SIGN_PKCS1_2048_SHA256",
                      "RSA_SIGN_PKCS1_3072_SHA256",
                      "RSA_SIGN_PKCS1_4096_SHA256"}
        THEN [hash |-> "SHA256", err |-> NoError]
    ELSE IF algorithm \in {"RSA_SIGN_PSS_4096_SHA512", "RSA_SIGN_PKCS1_4096_SHA512"}
        THEN [hash |-> "SHA512", err |-> NoError]
    ELSE [hash |-> "0", err |-> NewError("algorithm does not support digests")]

\* digestHashForAlgorithm(algorithm): (crypto.Hash, error)
digestHashForAlgorithm(algorithm) ==
    IF algorithm \in {"EC_SIGN_P256_SHA256",
                      "EC_SIGN_SECP256K1_SHA256",
                      "RSA_SIGN_PSS_2048_SHA256",
                      "RSA_SIGN_PSS_3072_SHA256",
                      "RSA_SIGN_PSS_4096_SHA256",
                      "RSA_SIGN_PKCS1_2048_SHA256",
                      "RSA_SIGN_PKCS1_3072_SHA256",
                      "RSA_SIGN_PKCS1_4096_SHA256"}
        THEN [hash |-> "SHA256", err |-> NoError]
    ELSE IF algorithm = "EC_SIGN_P384_SHA384"
        THEN [hash |-> "SHA384", err |-> NoError]
    ELSE IF algorithm \in {"RSA_SIGN_PSS_4096_SHA512", "RSA_SIGN_PKCS1_4096_SHA512"}
        THEN [hash |-> "SHA512", err |-> NoError]
    ELSE [hash |-> "0", err |-> NewError("algorithm does not support digests")]

\* crypto.Hash.Size()
HashSize(h) == CASE h = "SHA256" -> 32 [] h = "SHA384" -> 48 [] h = "SHA512" -> 64

\* crypto.Hash.Available(): SHA-256, SHA-384 and SHA-512 are linked into every
\* binary that links the KMS gRPC client (crypto/tls registers them).
HashAvailable(h) == h \in {"SHA256", "SHA384", "SHA512"}

\* h := selectedHash.New(); h.Write(data); h.Sum(nil).  The hash functions are
\* the standard library's; the model keeps what the signer relies on: a
\* deterministic function of the hash and the data, HashSize(h) bytes long.
HashSum(h, data) ==
    LET first == IF data = << >> THEN 0 ELSE data[1]
        last == IF data = << >> THEN 0 ELSE data[Len(data)]
        mix == HashSize(h) + 3 * first + 5 * last + 7 * (Len(data) % 251)
    IN [i \in 1..HashSize(h) |-> (mix + 11 * i) % 256]

\* calculateDigest(data, algorithm): (*kmspb.Digest, int64, error)
calculateDigest(data, algorithm) ==
    LET selected == digestHashForAlgorithm(algorithm) IN
    IF selected.err # NoError
        THEN [digest |-> Nil, checksum |-> Int64Zero, err |-> selected.err]
    ELSE IF ~HashAvailable(selected.hash)
        THEN [digest |-> Nil, checksum |-> Int64Zero,
              err |-> NewError("hash function is not available")]
    ELSE LET digestBytes == HashSum(selected.hash, data) IN
         IF selected.hash \in {"SHA256", "SHA384", "SHA512"}
            THEN [digest |-> Ptr([kind |-> selected.hash, bytes |-> digestBytes]),
                  checksum |-> computeChecksum(digestBytes),
                  err |-> NoError]
         ELSE [digest |-> Nil, checksum |-> Int64Zero,
               err |-> NewError("unsupported hash function")]

\* buildAsymmetricSignRequest(keyName, data, algorithm, protectionLevel):
\* (*kmspb.AsymmetricSignRequest, error).  A field the code does not set is nil.
buildAsymmetricSignRequest(keyName, data, algorithm, protectionLevel) ==
    IF requiresDataForSign(algorithm, protectionLevel)
        THEN [request |-> Ptr([name |-> keyName,
                               data |-> Ptr(data),
                               data_crc32c |-> Ptr(computeChecksum(data)),
                               digest |-> Nil,
                               digest_crc32c |-> Nil]),
              err |-> NoError]
    ELSE LET d == calculateDigest(data, algorithm) IN
         IF d.err # NoError THEN [request |-> Nil, err |-> d.err]
         ELSE [request |-> Ptr([name |-> keyName,
                                data |-> Nil,
                                data_crc32c |-> Nil,
                                digest |-> d.digest,
                                digest_crc32c |-> Ptr(d.checksum)]),
               err |-> NoError]

\* Signatures a response may carry, and the values of its checksum field.
SignatureBytes == <<7>>
Signatures == {<< >>, SignatureBytes}
SignatureChecksumFields == {Nil, Ptr(computeChecksum(SignatureBytes)), Ptr(Int64One)}

\* kmspb.AsymmetricSignResponse
AsymmetricSignResponses ==
    [name : SignerResponseNames,
     signature : Signatures,
     signature_crc32c : SignatureChecksumFields,
     verified_data_crc32c : BOOLEAN,
     verified_digest_crc32c : BOOLEAN]

\* What signer.kms.AsymmetricSign returns.
AsymmetricSignOutcomes == RpcOutcomes(AsymmetricSignResponses)

ErrDataTooLarge == NewError("the input data is larger than the allowed limit")
ErrSignKeyName ==
    NewError("the response key name does not match the requested key name")
\* fmt.Errorf("...: %w", err) with err == nil: an error that wraps nothing.
ErrInputChecksum == Wrap("checking the input checksum failed", NoError)
ErrSignatureChecksum == Wrap("signature checksum mismatch", NoError)

\* SignWithContext comparing the key names as EncryptWithContext does, by
\* prefix.
SignWithContextResultPrefixName(s, out) ==
    IF out.err # NoError
        THEN Return(Nil, Wrap("GCP KMS AsymmetricSign failed", out.err))
    ELSE LET response == Deref(out.resp) IN
         IF ~HasPrefix(response.name, s.keyName)
            THEN Return(Nil, ErrSignKeyName)
         ELSE IF ~response.verified_data_crc32c /\ ~response.verified_digest_crc32c
            THEN Return(Nil, ErrInputChecksum)
         ELSE IF GetValue(response.signature_crc32c) # computeChecksum(response.signature)
            THEN Return(Nil, ErrSignatureChecksum)
         ELSE Return(response.signature, NoError)

\* SignWithContext returning the error of the remote call as it is, the way
\* EncryptWithContext does.
SignWithContextResultBareError(s, out) ==
    IF out.err # NoError
        THEN Return(Nil, out.err)
    ELSE LET response == Deref(out.resp) IN
         IF response.name # s.keyName
            THEN Return(Nil, ErrSignKeyName)
         ELSE IF ~response.verified_data_crc32c /\ ~response.verified_digest_crc32c
            THEN Return(Nil, ErrInputChecksum)
         ELSE IF GetValue(response.signature_crc32c) # computeChecksum(response.signature)
            THEN Return(Nil, ErrSignatureChecksum)
         ELSE Return(response.signature, NoError)

\* SignWithContext without the comparison of signature_crc32c.
SignWithContextResultNoSignatureChecksum(s, out) ==
    IF out.err # NoError
        THEN Return(Nil, Wrap("GCP KMS AsymmetricSign failed", out.err))
    ELSE LET response == Deref(out.resp) IN
         IF response.name # s.keyName
            THEN Return(Nil, ErrSignKeyName)
         ELSE IF ~response.verified_data_crc32c /\ ~response.verified_digest_crc32c
            THEN Return(Nil, ErrInputChecksum)
         ELSE Return(response.signature, NoError)

\* SignWithContext looking at the verified flags before the key name.
SignWithContextResultFlagsFirst(s, out) ==
    IF out.err # NoError
        THEN Return(Nil, Wrap("GCP KMS AsymmetricSign failed", out.err))
    ELSE LET response == Deref(out.resp) IN
         IF ~response.verified_data_crc32c /\ ~response.verified_digest_crc32c
            THEN Return(Nil, ErrInputChecksum)
         ELSE IF response.name # s.keyName
            THEN Return(Nil, ErrSignKeyName)
         ELSE IF GetValue(response.signature_crc32c) # computeChecksum(response.signature)
            THEN Return(Nil, ErrSignatureChecksum)
         ELSE Return(response.signature, NoError)

\* SignWithContext from the return of signer.kms.AsymmetricSign on.
SignWithContextResult(s, out) ==
    IF out.err # NoError
        THEN Return(Nil, Wrap("GCP KMS AsymmetricSign failed", out.err))
    ELSE LET response == Deref(out.resp) IN
         IF response.name # s.keyName
            THEN Return(Nil, ErrSignKeyName)
         ELSE IF ~response.verified_data_crc32c /\ ~response.verified_digest_crc32c
            THEN Return(Nil, ErrInputChecksum)
         ELSE IF GetValue(response.signature_crc32c) # computeChecksum(response.signature)
            THEN Return(Nil, ErrSignatureChecksum)
         ELSE Return(response.signature, NoError)

\* The inputs signed in the model: the short payloads, and for the size limit
\* the empty input, the longest input allowed and one a byte longer.
SignInputs == Payloads
SignLimitInputs == {<< >>, DataAtLimit, DataOverLimit}

\* The size test with >= in place of >.
exceedsMaxSignDataSizeInclusive(data) == Len(data) >= kmsMaxSignDataSize

\* if len(data) > kmsMaxSignDataSize
exceedsMaxSignDataSize(data) == Len(data) > kmsMaxSignDataSize

\* A finished call keeps the length of its input, not the bytes.
NoSignCall ==
    [pc |-> "idle", data |-> << >>, dataLen |-> 0, req |-> Nil, out |-> Nil,
     ret |-> Nil, rpcs |-> 0]

\* The callers that use one handle at the same time.
MaxSignCallers == 2
SignCallers == 1..MaxSignCallers
NoSignCalls == [c \in SignCallers |-> NoSignCall]

\* No NewClient call yet; no call on a gcpAEAD yet.
NoClient ==
    [pc |-> "idle", uriPrefix |-> << >>, opts |-> << >>, c |-> Nil, err |-> NoError,
     got |-> Nil]
NoGcpCall ==
    [op |-> "none", pc |-> "idle", input |-> << >>, associatedData |-> << >>,
     req |-> Nil, out |-> Nil, ret |-> Nil]

\* No caller of the round trip yet; no computeChecksum call yet.
NoRoundTrip ==
    [pc |-> "idle", plaintext |-> << >>, associatedData |-> << >>, enc |-> Nil,
     decryptData |-> << >>, dec |-> Nil]
NoChecksums == << >>

\* The invocation of s.SignWithContext(ctx, data) when it has reached the call
\* s.kms.AsymmetricSign(ctx, request), or has returned before it.
signCallStarted(s, data) ==
    LET fail(err) == [NoSignCall EXCEPT !.pc = "returned", !.dataLen = Len(data),
                                        !.ret = Ptr(Return(Nil, err))]
    IN IF exceedsMaxSignDataSize(data) THEN fail(ErrDataTooLarge)
       ELSE LET b == buildAsymmetricSignRequest(s.keyName, data,
                         s.publicKey.algorithm, s.publicKey.protection_level)
            IN IF b.err # NoError THEN fail(b.err)
               ELSE [NoSignCall EXCEPT !.pc = "rpc", !.data = data,
                                       !.dataLen = Len(data),
                                       !.req = b.request, !.rpcs = 1]

\* The invocation call of s.SignWithContext when s.kms.AsymmetricSign has
\* returned out and SignWithContext has checked it and returned.
signCallReturned(call, s, out) ==
    [call EXCEPT !.pc = "returned", !.data = << >>, !.out = Ptr(out),
                 !.ret = Ptr(SignWithContextResult(s, out))]

\* SignWithContext up to the call signer.kms.AsymmetricSign(ctx, request).
SignWithContext(data) ==
    /\ signer # Nil
    /\ signCall.pc = "idle"
    /\ signCall' = signCallStarted(Deref(signer), data)
    /\ UNCHANGED <<aead, aeadCall, newSigner, signer, signCalls, roundTrip, checksums,
                 client, gcpCall>>

\* signer.kms.AsymmetricSign returns out; SignWithContext checks it and returns.
SignWithContextReturn(out) ==
    /\ signCall.pc = "rpc"
    /\ signCall' = signCallReturned(signCall, Deref(signer), out)
    /\ UNCHANGED <<aead, aeadCall, newSigner, signer, signCalls, roundTrip, checksums,
                 client, gcpCall>>

(***************************************************************************)
(* Specifications.                                                         *)
(***************************************************************************)
\* A grpcAEAD for some key name and one call on it.
AEADInit ==
    /\ aead \in {newGRPCAEAD(k) : k \in AeadKeyURIs}
    /\ aeadCall = NoAeadCall
    /\ newSigner = NoNewSigner
    /\ signer = Nil
    /\ signCall = NoSignCall
    /\ signCalls = NoSignCalls
    /\ roundTrip = NoRoundTrip
    /\ checksums = NoChecksums
    /\ client = NoClient
    /\ gcpCall = NoGcpCall

AEADNext ==
    \/ \E plaintext \in Payloads, associatedData \in Payloads :
            EncryptWithContext(plaintext, associatedData)
    \/ \E out \in RpcOutcomes(EncryptResponses) : EncryptWithContextReturn(out)
    \/ \E ciphertext \in Payloads, associatedData \in Payloads :
            DecryptWithContext(ciphertext, associatedData)
    \/ \E out \in RpcOutcomes(DecryptResponses) : DecryptWithContextReturn(out)

AEADSpec == AEADInit /\ [][AEADNext]_vars

\* One NewGRPCSigner call, then a SignWithContext call on the handle it returned.
SignerInit ==
    /\ aead = newGRPCAEAD(<<"k">>)
    /\ aeadCall = NoAeadCall
    /\ newSigner = NoNewSigner
    /\ signer = Nil
    /\ signCall = NoSignCall
    /\ signCalls = NoSignCalls
    /\ roundTrip = NoRoundTrip
    /\ checksums = NoChecksums
    /\ client = NoClient
    /\ gcpCall = NoGcpCall

SignerNext ==
    \/ \E keyName \in SignerKeyNames, kms \in KmsClients : NewGRPCSigner(keyName, kms)
    \/ \E out \in GetPublicKeyOutcomes : GetPublicKeyReturn(out)
    \/ \E data \in SignInputs : SignWithContext(data)
    \/ \E out \in AsymmetricSignOutcomes : SignWithContextReturn(out)

SignerSpec == SignerInit /\ [][SignerNext]_vars

\* One NewGRPCSigner call, every kms.GetPublicKey call of which returns: the
\* call blocks in kms.GetPublicKey and goes on when it returns.
ConstructionNext ==
    \/ \E keyName \in SignerKeyNames, kms \in KmsClients : NewGRPCSigner(keyName, kms)
    \/ \E out \in GetPublicKeyOutcomes : GetPublicKeyReturn(out)

ConstructionSpec ==
    /\ SignerInit
    /\ [][ConstructionNext]_vars
    /\ WF_vars(\E out \in GetPublicKeyOutcomes : GetPublicKeyReturn(out))

\* A program that uses the grpcAEAD or the signer: one call on the grpcAEAD,
\* or one NewGRPCSigner call and a SignWithContext call on its handle.
OperationsNext ==
    \/ newSigner.pc = "idle" /\ AEADNext
    \/ aeadCall.pc = "idle" /\ SignerNext

OperationsSpec == SignerInit /\ [][OperationsNext]_vars

\* A SignWithContext call that keeps the key name of the response in the
\* handle.
signerAfterSignKeepingName(s, out) ==
    IF out.err = NoError THEN [s EXCEPT !.keyName = Deref(out.resp).name] ELSE s

\* The handle *signer after a SignWithContext call on it got out from the
\* remote call: SignWithContext assigns to no field of the handle.
signerAfterSign(s, out) == s

\* Concurrent callers of one handle: the handles NewGRPCSigner returns after a
\* first kms.GetPublicKey that succeeded with one of these public keys, an
\* input that is sent and one that is too long, and these answers.
ConcurrentPublicKeys ==
    [name : {KeyName1},
     public_key : {[data |-> PublicKeyBytes,
                    crc32c_checksum |-> Ptr(computeChecksum(PublicKeyBytes))]},
     algorithm : {"EC_SIGN_ED25519", "EC_SIGN_P256_SHA256"},
     protection_level : {"SOFTWARE"}]
ConcurrentSignInputs == {<<97>>, DataOverLimit}
ConcurrentSignOutcomes ==
    RpcOutcomes([name : SignerResponseNames,
                 signature : {SignatureBytes},
                 signature_crc32c : {Ptr(computeChecksum(SignatureBytes)), Ptr(Int64One)},
                 verified_data_crc32c : BOOLEAN,
                 verified_digest_crc32c : BOOLEAN])

ConcurrentSignInit ==
    /\ aead = newGRPCAEAD(<<"k">>)
    /\ aeadCall = NoAeadCall
    /\ \E out \in RpcOutcomes(ConcurrentPublicKeys) :
          LET kms == Ptr("KeyManagementClient")
              r == tryGetPublicKey(out)
              res == NewGRPCSignerResult(KeyName1, kms, getPublicKeyResult(KeyName1, r))
          IN /\ res.err = NoError
             /\ newSigner = [NoNewSigner EXCEPT
                                !.pc = "returned", !.keyName = KeyName1, !.kms = kms,
                                !.req = Ptr(GetPublicKeyRequest(KeyName1)),
                                !.out = Ptr(out), !.tries = <<r.err>>, !.rpcs = 1]
             /\ signer = res.signer
    /\ signCall = NoSignCall
    /\ signCalls = NoSignCalls
    /\ roundTrip = NoRoundTrip
    /\ checksums = NoChecksums
    /\ client = NoClient
    /\ gcpCall = NoGcpCall

\* Caller c: SignWithContext up to the call signer.kms.AsymmetricSign.
ConcurrentSignWithContext(c, data) ==
    /\ signer # Nil
    /\ signCalls[c].pc = "idle"
    /\ signCalls' = [signCalls EXCEPT ![c] = signCallStarted(Deref(signer), data)]
    /\ UNCHANGED <<aead, aeadCall, newSigner, signer, signCall, roundTrip, checksums,
                 client, gcpCall>>

\* Caller c: signer.kms.AsymmetricSign returns out; SignWithContext checks it
\* and returns.
ConcurrentSignWithContextReturn(c, out) ==
    /\ signCalls[c].pc = "rpc"
    /\ signCalls' = [signCalls EXCEPT ![c] = signCallReturned(@, Deref(signer), out)]
    /\ signer' = Ptr(signerAfterSign(Deref(signer), out))
    /\ UNCHANGED <<aead, aeadCall, newSigner, signCall, roundTrip, checksums,
                 client, gcpCall>>

ConcurrentSignNext ==
    \/ \E c \in SignCallers, data \in ConcurrentSignInputs :
            ConcurrentSignWithContext(c, data)
    \/ \E c \in SignCallers, out \in ConcurrentSignOutcomes :
            ConcurrentSignWithContextReturn(c, out)

ConcurrentSignSpec == ConcurrentSignInit /\ [][ConcurrentSignNext]_vars

\* A remote service that answers honestly.  Its cipher keeps the associated
\* data in front of the plaintext, so that opening with other associated data
\* fails: Seal(p, aad) = len(aad) || aad || p.
Seal(plaintext, associatedData) ==
    <<Len(associatedData)>> \o associatedData \o plaintext
Opens(ciphertext, associatedData) ==
    /\ Len(ciphertext) >= 1 + Len(associatedData)
    /\ ciphertext[1] = Len(associatedData)
    /\ SubSeq(ciphertext, 2, 1 + Len(associatedData)) = associatedData
Open(ciphertext, associatedData) ==
    SubSeq(ciphertext, 2 + Len(associatedData), Len(ciphertext))

InvalidArgument == NewError("rpc error: code = InvalidArgument")

\* The honest Encrypt: it verifies the two request checksums, encrypts with
\* version 1 of the key and names that version in its response.
HonestEncrypt(req) ==
    IF \/ GetValue(req.plaintext_crc32c) # computeChecksum(req.plaintext)
       \/ GetValue(req.additional_authenticated_data_crc32c)
              # computeChecksum(req.additional_authenticated_data)
        THEN [resp |-> Nil, err |-> InvalidArgument]
    ELSE LET ciphertext == Seal(req.plaintext, req.additional_authenticated_data)
         IN [resp |-> Ptr([name |-> req.name \o <<"/", "1">>,
                           ciphertext |-> ciphertext,
                           ciphertext_crc32c |-> Ptr(computeChecksum(ciphertext)),
                           verified_plaintext_crc32c |-> TRUE,
                           verified_additional_authenticated_data_crc32c |-> TRUE]),
             err |-> NoError]

\* The honest Decrypt: it verifies the two request checksums and opens the
\* ciphertext with the associated data of the request.
HonestDecrypt(req) ==
    IF \/ GetValue(req.ciphertext_crc32c) # computeChecksum(req.ciphertext)
       \/ GetValue(req.additional_authenticated_data_crc32c)
              # computeChecksum(req.additional_authenticated_data)
       \/ ~Opens(req.ciphertext, req.additional_authenticated_data)
        THEN [resp |-> Nil, err |-> InvalidArgument]
    ELSE LET plaintext == Open(req.ciphertext, req.additional_authenticated_data)
         IN [resp |-> Ptr([plaintext |-> plaintext,
                           plaintext_crc32c |-> Ptr(computeChecksum(plaintext)),
                           used_primary |-> TRUE]),
             err |-> NoError]

\* Plaintexts and associated data of the round trip.
MaxRoundTripLen == 2
RoundTripPayloads == BytesUpTo({0, 97}, MaxRoundTripLen)

\* ciphertext, err := a.EncryptWithContext(ctx, plaintext, associatedData)
RoundTripEncrypt(plaintext, associatedData) ==
    /\ roundTrip.pc = "idle"
    /\ LET req == EncryptRequest(aead, plaintext, associatedData)
           enc == EncryptWithContextResult(aead, HonestEncrypt(req))
       IN roundTrip' = [roundTrip EXCEPT !.pc = "encrypted", !.plaintext = plaintext,
                                         !.associatedData = associatedData,
                                         !.enc = Ptr(enc)]
    /\ UNCHANGED <<aead, aeadCall, newSigner, signer, signCall, signCalls, checksums,
                 client, gcpCall>>

\* gotPlaintext, err := a.DecryptWithContext(ctx, ciphertext, associatedData)
\* with the ciphertext of the encryption before.
RoundTripDecrypt(associatedData) ==
    /\ roundTrip.pc = "encrypted"
    /\ Deref(roundTrip.enc).err = NoError
    /\ LET req == DecryptRequest(aead, Deref(roundTrip.enc).val, associatedData)
           dec == DecryptWithContextResult(aead, HonestDecrypt(req))
       IN roundTrip' = [roundTrip EXCEPT !.pc = "decrypted",
                                         !.decryptData = associatedData,
                                         !.dec = Ptr(dec)]
    /\ UNCHANGED <<aead, aeadCall, newSigner, signer, signCall, signCalls, checksums,
                 client, gcpCall>>

RoundTripNext ==
    \/ \E plaintext \in RoundTripPayloads, associatedData \in RoundTripPayloads :
            RoundTripEncrypt(plaintext, associatedData)
    \/ \E associatedData \in RoundTripPayloads : RoundTripDecrypt(associatedData)

RoundTripSpec == AEADInit /\ [][RoundTripNext]_vars

\* Callers of computeChecksum, one call after another on any inputs; the last
\* two calls are kept.
MaxChecksumLen == 2
ChecksumInputs == BytesUpTo({0, 97, 255}, MaxChecksumLen)

\* computeChecksum(value) is called and returns.
ComputeChecksum(value) ==
    /\ LET call == [value |-> value, sum |-> computeChecksum(value)]
       IN checksums' = IF Len(checksums) < 2 THEN Append(checksums, call)
                       ELSE <<checksums[2], call>>
    /\ UNCHANGED <<aead, aeadCall, newSigner, signer, signCall, signCalls, roundTrip,
                   client, gcpCall>>

ChecksumNext == \E value \in ChecksumInputs : ComputeChecksum(value)

ChecksumSpec == SignerInit /\ [][ChecksumNext]_vars

\* SignWithContext at its size limit, on every handle NewGRPCSigner returns
\* after a first kms.GetPublicKey that succeeded.
SignLimitInit ==
    /\ aead = newGRPCAEAD(<<"k">>)
    /\ aeadCall = NoAeadCall
    /\ \E out \in GetPublicKeyOutcomes :
          LET kms == Ptr("KeyManagementClient")
              r == tryGetPublicKey(out)
              res == NewGRPCSignerResult(KeyName1, kms, getPublicKeyResult(KeyName1, r))
          IN /\ res.err = NoError
             /\ newSigner = [NoNewSigner EXCEPT
                                !.pc = "returned", !.keyName = KeyName1, !.kms = kms,
                                !.req = Ptr(GetPublicKeyRequest(KeyName1)),
                                !.out = Ptr(out), !.tries = <<r.err>>, !.rpcs = 1]
             /\ signer = res.signer
    /\ signCall = NoSignCall
    /\ signCalls = NoSignCalls
    /\ roundTrip = NoRoundTrip
    /\ checksums = NoChecksums
    /\ client = NoClient
    /\ gcpCall = NoGcpCall

SignLimitNext ==
    \/ \E data \in SignLimitInputs : SignWithContext(data)
    \/ \E out \in AsymmetricSignOutcomes : SignWithContextReturn(out)

SignLimitSpec == SignLimitInit /\ [][SignLimitNext]_vars

(***************************************************************************)
(* Client: NewClient, GetAEAD, GetAEADWithContext (gcp_kms_client.go).     *)
(* Key URIs are sequences of one-character strings.                        *)
(***************************************************************************)
\* const gcpPrefix = "gcp-kms://"
gcpPrefix == <<"g", "c", "p", "-", "k", "m", "s", ":", "/", "/">>

\* strings.ToLower on ASCII text: the letters A..Z become a..z, every other
\* character stays.
UpperLetters ==
    <<"A", "B", "C", "D", "E", "F", "G", "H", "I", "J", "K", "L", "M",
      "N", "O", "P", "Q", "R", "S", "T", "U", "V", "W", "X", "Y", "Z">>
LowerLetters ==
    <<"a", "b", "c", "d", "e", "f", "g", "h", "i", "j", "k", "l", "m",
      "n", "o", "p", "q", "r", "s", "t", "u", "v", "w", "x", "y", "z">>
toLowerChar(c) ==
    IF \E n \in DOMAIN UpperLetters : UpperLetters[n] = c
        THEN LowerLetters[CHOOSE n \in DOMAIN UpperLetters : UpperLetters[n] = c]
        ELSE c
ToLower(s) == IF s = << >> THEN << >> ELSE [n \in 1..Len(s) |-> toLowerChar(s[n])]

\* strings.TrimPrefix(s, prefix)
TrimPrefix(s, prefix) ==
    IF HasPrefix(s, prefix) THEN SubSeq(s, Len(prefix) + 1, Len(s)) ELSE s

\* The URI prefixes and key URIs of the model: the scheme marker in lower,
\* upper and mixed case, alone and with a path; another scheme; the empty
\* string; the marker with a slash missing.
UpperPrefix == <<"G", "C", "P", "-", "K", "M", "S", ":", "/", "/">>
MixedPrefix == <<"G", "c", "p", "-", "K", "m", "s", ":", "/", "/">>
OtherPrefix == <<"a", "w", "s", "-", "k", "m", "s", ":", "/", "/">>
ClientURIPrefixes ==
    {gcpPrefix, gcpPrefix \o <<"k">>, UpperPrefix \o <<"k">>, MixedPrefix,
     OtherPrefix \o <<"k">>, << >>, SubSeq(gcpPrefix, 1, 9)}
ClientKeyURIs ==
    {gcpPrefix \o <<"k">>, gcpPrefix \o <<"k", "/", "1">>, gcpPrefix \o <<"x">>,
     UpperPrefix \o <<"k">>, UpperPrefix \o <<"k", "/", "1">>, MixedPrefix \o <<"k">>,
     OtherPrefix \o <<"k">>, << >>}

\* type Transport int: TransportGRPC = 1 + iota, TransportREST.
TransportGRPC == 1
TransportREST == 2
\* The Transport values a caller passes: the two named ones, the zero value
\* and one beyond TransportREST.
Transports == {0, TransportGRPC, TransportREST, 3}

\* type options struct, as `var o options` leaves it.
ZeroOptions == [transport |-> 0, apiOptions |-> << >>]

\* WithTransport(transport), WithGoogleAPIClientOptions(apiOptions...): the
\* Option values, and what calling one does to *opts.
WithTransport(transport) == [option |-> "WithTransport", transport |-> transport]
WithGoogleAPIClientOptions(apiOptions) ==
    [option |-> "WithGoogleAPIClientOptions", apiOptions |-> apiOptions]
applyOption(opt, o) ==
    IF opt.option = "WithTransport"
        THEN [o EXCEPT !.transport = opt.transport]
        ELSE [o EXCEPT !.apiOptions = opt.apiOptions]

\* var DefaultOptions = []Option{WithTransport(TransportGRPC)}
DefaultOptions == <<WithTransport(TransportGRPC)>>

\* for _, opt := range opts { opt(&o) }
RECURSIVE applyOptions(_, _)
applyOptions(opts, o) ==
    IF opts = << >> THEN o
    ELSE applyOptions(Tail(opts), applyOption(Head(opts), o))

\* The options a caller passes to NewClient: up to MaxOptions of them.
MaxOptions == 2
Options ==
    {WithTransport(t) : t \in Transports}
        \cup {WithGoogleAPIClientOptions(<<"WithCredentialsFile">>)}
OptionLists == UNION {[1..n -> Options] : n \in 0..MaxOptions}

\* What kms.NewKeyManagementClient / cloudkms.NewService returns: the backend
\* and no error, or no backend and an error.
BackendError == NewError("could not create the KMS backend")
BackendErrors == {NoError, BackendError}

ErrURIPrefix == NewError("uriPrefix must start with gcp-kms://")
ErrInvalidTransport == NewError("invalid transport specified")
ErrUnsupportedKeyURI == NewError("unsupported keyURI")
ErrNoClient == NewError("no client present")
ErrGRPCOnly == NewError("AEADWithContext is only supported when using GRPC")

\* NewClient taking the first transport option instead of the last.
optionsOfFirstTransport(opts) ==
    LET all == DefaultOptions \o opts
        o == applyOptions(all, ZeroOptions)
    IN [o EXCEPT !.apiOptions = Append(@, "WithUserAgent"),
                 !.transport = Head(all).transport]

\* NewClient, lines 98-107: the options after the default options, the
\* caller's options and the user agent were applied.
optionsOf(opts) ==
    LET o == applyOptions(DefaultOptions \o opts, ZeroOptions)
    IN [o EXCEPT !.apiOptions = Append(@, "WithUserAgent")]

\* NewClient, line 95: strings.HasPrefix(strings.ToLower(uriPrefix), gcpPrefix)
hasScheme(uriPrefix) == HasPrefix(ToLower(uriPrefix), gcpPrefix)

\* NewClient(ctx, uriPrefix, opts...): (*Client, error), where the creation of
\* the backend returns backendErr.
NewClientResult(uriPrefix, opts, backendErr) ==
    IF ~hasScheme(uriPrefix) THEN [c |-> Nil, err |-> ErrURIPrefix]
    ELSE LET o == optionsOf(opts)
             c == [keyURIPrefix |-> uriPrefix, restKMS |-> Nil, grpcKMS |-> Nil]
         IN IF o.transport = TransportGRPC
                THEN IF backendErr # NoError THEN [c |-> Nil, err |-> backendErr]
                     ELSE [c |-> Ptr([c EXCEPT !.grpcKMS = Ptr("KeyManagementClient")]),
                           err |-> NoError]
            ELSE IF o.transport = TransportREST
                THEN IF backendErr # NoError THEN [c |-> Nil, err |-> backendErr]
                     ELSE [c |-> Ptr([c EXCEPT !.restKMS = Ptr("cloudkms.Service")]),
                           err |-> NoError]
            ELSE [c |-> Nil, err |-> ErrInvalidTransport]

\* Supported comparing without regard to the case of the letters.
SupportedIgnoringCase(c, keyURI) == HasPrefix(ToLower(keyURI), ToLower(c.keyURIPrefix))

\* (c *Client) Supported(keyURI)
Supported(c, keyURI) == HasPrefix(keyURI, c.keyURIPrefix)

\* keyName := strings.TrimPrefix(keyURI, gcpPrefix)
keyNameOf(keyURI) == TrimPrefix(keyURI, gcpPrefix)

\* newGCPAEAD(keyURI, kms)
newGCPAEAD(keyURI) == [keyURI |-> keyURI]

\* (c *Client) GetAEAD(keyURI): (tink.AEAD, error)
GetAEADResult(c, keyURI) ==
    IF ~Supported(c, keyURI) THEN [aead |-> Nil, err |-> ErrUnsupportedKeyURI]
    ELSE LET keyName == keyNameOf(keyURI) IN
         IF c.grpcKMS # Nil
            THEN [aead |-> Ptr([type |-> "aeadWithContextWrapper",
                                keyURI |-> newGRPCAEAD(keyName).keyURI]),
                  err |-> NoError]
         ELSE IF c.restKMS # Nil
            THEN [aead |-> Ptr([type |-> "gcpAEAD",
                                keyURI |-> newGCPAEAD(keyName).keyURI]),
                  err |-> NoError]
         ELSE [aead |-> Nil, err |-> ErrNoClient]

\* GetAEADWithContext(ctx, keyURI, opts...): (tink.AEADWithContext, error);
\* c is what its NewClient call returned.
GetAEADWithContextResult(keyURI, c) ==
    IF c.err # NoError THEN [aead |-> Nil, err |-> c.err]
    ELSE IF Deref(c.c).grpcKMS = Nil THEN [aead |-> Nil, err |-> ErrGRPCOnly]
    ELSE [aead |-> Ptr([type |-> "grpcAEAD",
                        keyURI |-> newGRPCAEAD(keyNameOf(keyURI)).keyURI]),
          err |-> NoError]

\* NewClient(ctx, uriPrefix, opts...)
NewClient(uriPrefix, opts, backendErr) ==
    /\ client.pc = "idle"
    /\ LET r == NewClientResult(uriPrefix, opts, backendErr)
       IN client' = [pc |-> "created", uriPrefix |-> uriPrefix, opts |-> opts,
                     c |-> r.c, err |-> r.err, got |-> Nil]
    /\ UNCHANGED <<aead, aeadCall, newSigner, signer, signCall, signCalls, roundTrip,
                   checksums, gcpCall>>

\* c.GetAEAD(keyURI) on the client NewClient returned.
GetAEAD(keyURI) ==
    /\ client.pc = "created"
    /\ client.c # Nil
    /\ LET r == GetAEADResult(Deref(client.c), keyURI)
       IN client' = [client EXCEPT !.pc = "got",
                                   !.got = Ptr([fn |-> "GetAEAD", keyURI |-> keyURI,
                                                aead |-> r.aead, err |-> r.err])]
    /\ UNCHANGED <<aead, aeadCall, newSigner, signer, signCall, signCalls, roundTrip,
                   checksums, gcpCall>>

\* GetAEADWithContext(ctx, keyURI, opts...), its NewClient call included.
GetAEADWithContext(keyURI, opts, backendErr) ==
    /\ client.pc = "idle"
    /\ LET c == NewClientResult(keyURI, opts, backendErr)
           r == GetAEADWithContextResult(keyURI, c)
       IN client' = [pc |-> "got", uriPrefix |-> keyURI, opts |-> opts,
                     c |-> c.c, err |-> c.err,
                     got |-> Ptr([fn |-> "GetAEADWithContext", keyURI |-> keyURI,
                                  aead |-> r.aead, err |-> r.err])]
    /\ UNCHANGED <<aead, aeadCall, newSigner, signer, signCall, signCalls, roundTrip,
                   checksums, gcpCall>>

ClientNext ==
    \/ \E uriPrefix \in ClientURIPrefixes, opts \in OptionLists,
          backendErr \in BackendErrors : NewClient(uriPrefix, opts, backendErr)
    \/ \E keyURI \in ClientKeyURIs : GetAEAD(keyURI)
    \/ \E keyURI \in ClientKeyURIs, opts \in OptionLists,
          backendErr \in BackendErrors : GetAEADWithContext(keyURI, opts, backendErr)

ClientSpec == SignerInit /\ [][ClientNext]_vars

(***************************************************************************)
(* gcpAEAD: Encrypt and Decrypt of gcp_kms_aead.go.                        *)
(***************************************************************************)
\* encoding/base64: the alphabets of StdEncoding and URLEncoding as character
\* codes (A-Z, a-z, 0-9, then "+/" or "-_"), and the padding character "=".
base64Alphabet(encoding) ==
    [n \in 1..64 |->
        IF n <= 26 THEN 64 + n
        ELSE IF n <= 52 THEN 70 + n
        ELSE IF n <= 62 THEN n - 5
        ELSE IF n = 63 THEN (IF encoding = "URLEncoding" THEN 45 ELSE 43)
        ELSE (IF encoding = "URLEncoding" THEN 95 ELSE 47)]
base64Pad == 61

\* The base64 text of src: four characters for every three bytes, the last
\* group padded.
RECURSIVE base64Text(_, _)
base64Text(encoding, src) ==
    LET A == base64Alphabet(encoding) IN
    IF src = << >> THEN << >>
    ELSE IF Len(src) = 1
        THEN <<A[(src[1] \div 4) + 1], A[(src[1] % 4) * 16 + 1], base64Pad, base64Pad>>
    ELSE IF Len(src) = 2
        THEN <<A[(src[1] \div 4) + 1],
               A[(src[1] % 4) * 16 + (src[2] \div 16) + 1],
               A[(src[2] % 16) * 4 + 1],
               base64Pad>>
    ELSE <<A[(src[1] \div 4) + 1],
           A[(src[1] % 4) * 16 + (src[2] \div 16) + 1],
           A[(src[2] % 16) * 4 + (src[3] \div 64) + 1],
           A[(src[3] % 64) + 1]>>
             \o base64Text(encoding, SubSeq(src, 4, Len(src)))

\* (enc *Encoding) Encode(dst, src): writes the base64 text of src to the
\* front of dst, and panics when dst is shorter than the text.  The value is
\* dst after the call.
base64Encode(encoding, dst, src) ==
    LET text == base64Text(encoding, src) IN
    IF Len(text) > Len(dst) THEN [dst |-> dst, panic |-> TRUE]
    ELSE [dst |-> text \o SubSeq(dst, Len(text) + 1, Len(dst)), panic |-> FALSE]

\* The bytes that a group of four base64 characters stands for; << -1 >> for
\* a group that is no base64 text.
base64Group(encoding, q, last) ==
    LET A == base64Alphabet(encoding)
        v(c) == IF \E n \in 1..64 : A[n] = c
                   THEN (CHOOSE n \in 1..64 : A[n] = c) - 1 ELSE -1
    IN IF last /\ q[3] = base64Pad /\ q[4] = base64Pad
          THEN IF v(q[1]) < 0 \/ v(q[2]) < 0 THEN <<-1>>
               ELSE <<v(q[1]) * 4 + (v(q[2]) \div 16)>>
       ELSE IF last /\ q[4] = base64Pad
          THEN IF v(q[1]) < 0 \/ v(q[2]) < 0 \/ v(q[3]) < 0 THEN <<-1>>
               ELSE <<v(q[1]) * 4 + (v(q[2]) \div 16),
                      (v(q[2]) % 16) * 16 + (v(q[3]) \div 4)>>
       ELSE IF v(q[1]) < 0 \/ v(q[2]) < 0 \/ v(q[3]) < 0 \/ v(q[4]) < 0 THEN <<-1>>
       ELSE <<v(q[1]) * 4 + (v(q[2]) \div 16),
              (v(q[2]) % 16) * 16 + (v(q[3]) \div 4),
              (v(q[3]) % 4) * 64 + v(q[4])>>

RECURSIVE base64Bytes(_, _)
base64Bytes(encoding, text) ==
    IF text = << >> THEN << >>
    ELSE IF Len(text) < 4 THEN <<-1>>
    ELSE LET g == base64Group(encoding, SubSeq(text, 1, 4), Len(text) = 4)
             rest == base64Bytes(encoding, SubSeq(text, 5, Len(text)))
         IN IF g = <<-1>> \/ rest = <<-1>> THEN <<-1>> ELSE g \o rest

\* (enc *Encoding) Decode(dst, src) (n int, err error): writes the bytes that
\* the base64 text src stands for to the front of dst.
ErrCorruptInput == NewError("illegal base64 data")
base64Decode(encoding, dst, src) ==
    LET bytes == base64Bytes(encoding, SelectSeq(src, LAMBDA c : c \notin {10, 13})) IN
    IF bytes = <<-1>> THEN [n |-> 0, err |-> ErrCorruptInput, dst |-> dst, panic |-> FALSE]
    ELSE IF Len(bytes) > Len(dst)
        THEN [n |-> 0, err |-> NoError, dst |-> dst, panic |-> TRUE]
    ELSE [n |-> Len(bytes), err |-> NoError,
          dst |-> bytes \o SubSeq(dst, Len(bytes) + 1, Len(dst)), panic |-> FALSE]

\* crc32c(data) of gcp_kms_aead.go, converted with int64(...).
crc32c(data) == Int64FromUint32(crc32Checksum(data))

\* What a gcpAEAD call returns; a call that panics returns nothing.
GcpReturn(val, err) == [val |-> val, err |-> err, panic |-> FALSE]
GcpPanic == [val |-> Nil, err |-> NoError, panic |-> TRUE]

ErrGcpRequestCorrupted == NewError("Encrypt: request corrupted in-transit")
ErrGcpEncryptCorrupted == NewError("Encrypt: response corrupted in-transit")
ErrGcpDecryptCorrupted == NewError("Decrypt: response corrupted in-transit")

\* The gcpAEAD the calls are made on.
GcpAEAD == newGCPAEAD(<<"k">>)

\* gcpAEAD.Encrypt, lines 51-68: the variables plaintextBase64 and
\* associatedDataBase64 are declared nil; base64.URLEncoding.Encode is called
\* with the caller's slice as dst and the nil variable as src; the request is
\* built from the variables.
GcpEncryptRequest(a, plaintext, associatedData) ==
    LET plaintextBase64 == << >>
        associatedDataBase64 == << >>
        e1 == base64Encode("URLEncoding", plaintext, plaintextBase64)
        e2 == base64Encode("URLEncoding", associatedData, associatedDataBase64)
    IN [panic |-> e1.panic \/ e2.panic,
        request |-> [name |-> a.keyURI,
                     plaintext |-> plaintextBase64,
                     plaintext_crc32c |-> Ptr(crc32c(plaintextBase64)),
                     additional_authenticated_data |-> associatedDataBase64,
                     additional_authenticated_data_crc32c |->
                         Ptr(crc32c(associatedDataBase64))]]

\* gcpAEAD.Encrypt from the return of a.kms.Encrypt on, lines 72-89.  The
\* field resp.CiphertextCrc32C is dereferenced as it is: the call panics when
\* it is nil.  base64.StdEncoding.Decode is called with resp.Ciphertext as dst
\* and the nil variable ciphertext as src, and ciphertext is returned.
GcpEncryptResult(a, out) ==
    IF out.err # NoError THEN GcpReturn(Nil, out.err)
    ELSE LET resp == Deref(out.resp)
             ciphertext == << >>
         IN IF ~resp.verified_plaintext_crc32c
               THEN GcpReturn(Nil, ErrGcpRequestCorrupted)
            ELSE IF resp.ciphertext_crc32c = Nil THEN GcpPanic
            ELSE IF crc32c(resp.ciphertext) # Deref(resp.ciphertext_crc32c)
               THEN GcpReturn(Nil, ErrGcpEncryptCorrupted)
            ELSE LET d == base64Decode("StdEncoding", resp.ciphertext, ciphertext)
                 IN IF d.panic THEN GcpPanic
                    ELSE IF d.err # NoError THEN GcpReturn(Nil, d.err)
                    ELSE GcpReturn(ciphertext, NoError)

\* gcpAEAD.Decrypt, lines 95-112: the request carries the caller's ciphertext
\* and, for the checksum and the associated data, the nil variables.
GcpDecryptRequest(a, ciphertext, associatedData) ==
    LET ciphertextBase64 == << >>
        associatedDataBase64 == << >>
        e1 == base64Encode("URLEncoding", ciphertext, ciphertextBase64)
        e2 == base64Encode("URLEncoding", associatedData, associatedDataBase64)
    IN [panic |-> e1.panic \/ e2.panic,
        request |-> [name |-> a.keyURI,
                     ciphertext |-> e1.dst,
                     ciphertext_crc32c |-> Ptr(crc32c(ciphertextBase64)),
                     additional_authenticated_data |-> associatedDataBase64,
                     additional_authenticated_data_crc32c |->
                         Ptr(crc32c(associatedDataBase64))]]

\* gcpAEAD.Decrypt from the return of a.kms.Decrypt on, lines 116-130.
GcpDecryptResult(a, out) ==
    IF out.err # NoError THEN GcpReturn(Nil, out.err)
    ELSE LET resp == Deref(out.resp)
             plaintext == << >>
         IN IF resp.plaintext_crc32c = Nil THEN GcpPanic
            ELSE IF crc32c(resp.plaintext) # Deref(resp.plaintext_crc32c)
               THEN GcpReturn(Nil, ErrGcpDecryptCorrupted)
            ELSE LET d == base64Decode("StdEncoding", resp.plaintext, plaintext)
                 IN IF d.panic THEN GcpPanic
                    ELSE IF d.err # NoError THEN GcpReturn(Nil, d.err)
                    ELSE GcpReturn(plaintext, NoError)

\* gcpAEAD.Encrypt up to the call a.kms.Encrypt(ctx, req).
GcpEncrypt(plaintext, associatedData) ==
    /\ gcpCall.pc = "idle"
    /\ LET b == GcpEncryptRequest(GcpAEAD, plaintext, associatedData)
       IN gcpCall' =
            IF b.panic
                THEN [NoGcpCall EXCEPT !.op = "Encrypt", !.pc = "returned",
                                       !.input = plaintext,
                                       !.associatedData = associatedData,
                                       !.ret = Ptr(GcpPanic)]
                ELSE [NoGcpCall EXCEPT !.op = "Encrypt", !.pc = "rpc",
                                       !.input = plaintext,
                                       !.associatedData = associatedData,
                                       !.req = Ptr(b.request)]
    /\ UNCHANGED <<aead, aeadCall, newSigner, signer, signCall, signCalls, roundTrip,
                   checksums, client>>

\* a.kms.Encrypt returns out; Encrypt checks it and returns.
GcpEncryptReturn(out) ==
    /\ gcpCall.pc = "rpc"
    /\ gcpCall.op = "Encrypt"
    /\ gcpCall' = [gcpCall EXCEPT !.pc = "returned", !.out = Ptr(out),
                                 !.ret = Ptr(GcpEncryptResult(GcpAEAD, out))]
    /\ UNCHANGED <<aead, aeadCall, newSigner, signer, signCall, signCalls, roundTrip,
                   checksums, client>>

\* gcpAEAD.Decrypt up to the call a.kms.Decrypt(ctx, req).
GcpDecrypt(ciphertext, associatedData) ==
    /\ gcpCall.pc = "idle"
    /\ LET b == GcpDecryptRequest(GcpAEAD, ciphertext, associatedData)
       IN gcpCall' =
            IF b.panic
                THEN [NoGcpCall EXCEPT !.op = "Decrypt", !.pc = "returned",
                                       !.input = ciphertext,
                                       !.associatedData = associatedData,
                                       !.ret = Ptr(GcpPanic)]
                ELSE [NoGcpCall EXCEPT !.op = "Decrypt", !.pc = "rpc",
                                       !.input = ciphertext,
                                       !.associatedData = associatedData,
                                       !.req = Ptr(b.request)]
    /\ UNCHANGED <<aead, aeadCall, newSigner, signer, signCall, signCalls, roundTrip,
                   checksums, client>>

\* a.kms.Decrypt returns out; Decrypt checks it and returns.
GcpDecryptReturn(out) ==
    /\ gcpCall.pc = "rpc"
    /\ gcpCall.op = "Decrypt"
    /\ gcpCall' = [gcpCall EXCEPT !.pc = "returned", !.out = Ptr(out),
                                 !.ret = Ptr(GcpDecryptResult(GcpAEAD, out))]
    /\ UNCHANGED <<aead, aeadCall, newSigner, signer, signCall, signCalls, roundTrip,
                   checksums, client>>

GcpAEADNext ==
    \/ \E plaintext \in Payloads, associatedData \in Payloads :
            GcpEncrypt(plaintext, associatedData)
    \/ \E out \in RpcOutcomes(EncryptResponses) : GcpEncryptReturn(out)
    \/ \E ciphertext \in Payloads, associatedData \in Payloads :
            GcpDecrypt(ciphertext, associatedData)
    \/ \E out \in RpcOutcomes(DecryptResponses) : GcpDecryptReturn(out)

GcpAEADSpec == SignerInit /\ [][GcpAEADNext]_vars

(***************************************************************************)
(* Properties of grpcAEAD (AEADSpec).                                      *)
(***************************************************************************)
\* The finished call: its request, the outcome of its remote call, its return.
EncryptReturned == aeadCall.pc = "returned" /\ aeadCall.op = "Encrypt"
DecryptReturned == aeadCall.pc = "returned" /\ aeadCall.op = "Decrypt"
AeadReq == Deref(aeadCall.req)
AeadOut == Deref(aeadCall.out)
AeadResp == Deref(AeadOut.resp)
AeadRet == Deref(aeadCall.ret)

\* C1: EncryptWithContext returns a ciphertext with a nil error only if the
\* remote call succeeded and its response has both verified flags true, a key
\* name that the requested key name is a prefix of, and a ciphertext_crc32c
\* whose value (0 when the field is unset, as GetValue reads it) equals the
\* CRC32C computed over the response's ciphertext; the bytes returned are then
\* the response's ciphertext.  A response whose ciphertext_crc32c differs from
\* the computed checksum yields an error and no ciphertext.
C1_EncryptReturnsOnlyCheckedCiphertext ==
    /\ (EncryptReturned /\ AeadRet.err = NoError) =>
          /\ AeadOut.err = NoError
          /\ AeadResp.verified_plaintext_crc32c
          /\ AeadResp.verified_additional_authenticated_data_crc32c
          /\ HasPrefix(AeadResp.name, AeadReq.name)
          /\ GetValue(AeadResp.ciphertext_crc32c) = computeChecksum(AeadResp.ciphertext)
          /\ AeadRet.val = AeadResp.ciphertext
    /\ (/\ EncryptReturned
        /\ AeadOut.err = NoError
        /\ GetValue(AeadResp.ciphertext_crc32c) # computeChecksum(AeadResp.ciphertext)) =>
          /\ AeadRet.err # NoError
          /\ AeadRet.val = Nil

\* An Encrypt call that returned a ciphertext of one byte or more.
C1_Witness ==
    /\ EncryptReturned
    /\ AeadRet.err = NoError
    /\ AeadRet.val # << >>
    /\ AeadResp.ciphertext_crc32c # Nil

\* C2: whatever the plaintext and the associated data, EncryptWithContext
\* returns an error and no ciphertext when the response has
\* verified_plaintext_crc32c false, and when it has
\* verified_additional_authenticated_data_crc32c false (an unset bool field
\* reads false), also when its ciphertext and ciphertext_crc32c agree.
C2_EncryptFailsWhenUnverified ==
    (/\ EncryptReturned
     /\ AeadOut.err = NoError
     /\ \/ ~AeadResp.verified_plaintext_crc32c
        \/ ~AeadResp.verified_additional_authenticated_data_crc32c) =>
        /\ AeadRet.err # NoError
        /\ AeadRet.val = Nil

\* An Encrypt call of an empty plaintext with associated data that failed on a
\* response valid in all but the associated-data flag.
C2_Witness ==
    /\ EncryptReturned
    /\ aeadCall.input = << >>
    /\ aeadCall.associatedData # << >>
    /\ AeadOut.err = NoError
    /\ AeadResp.verified_plaintext_crc32c
    /\ ~AeadResp.verified_additional_authenticated_data_crc32c
    /\ AeadResp.name = AeadReq.name
    /\ AeadResp.ciphertext # << >>
    /\ AeadResp.ciphertext_crc32c = Ptr(computeChecksum(AeadResp.ciphertext))
    /\ AeadRet.err = ErrAADUnverified

\* C3: DecryptWithContext returns a plaintext with a nil error only if the
\* remote call succeeded and the value of the response's plaintext_crc32c
\* equals the CRC32C computed over the response's plaintext; the bytes returned
\* are then the response's plaintext.  On a mismatch it returns an error and
\* no plaintext.
C3_DecryptReturnsOnlyCheckedPlaintext ==
    /\ (DecryptReturned /\ AeadRet.err = NoError) =>
          /\ AeadOut.err = NoError
          /\ GetValue(AeadResp.plaintext_crc32c) = computeChecksum(AeadResp.plaintext)
          /\ AeadRet.val = AeadResp.plaintext
    /\ (/\ DecryptReturned
        /\ AeadOut.err = NoError
        /\ GetValue(AeadResp.plaintext_crc32c) # computeChecksum(AeadResp.plaintext)) =>
          /\ AeadRet.err = ErrPlaintextChecksum
          /\ AeadRet.val = Nil

\* A Decrypt call that returned a plaintext of one byte or more.
C3_Witness ==
    /\ DecryptReturned
    /\ AeadRet.err = NoError
    /\ AeadRet.val # << >>
    /\ AeadResp.plaintext_crc32c # Nil

(***************************************************************************)
(* Properties of GRPCSigner (SignerSpec, SignLimitSpec).                   *)
(***************************************************************************)
\* The finished SignWithContext call: the handle, the request, the outcome of
\* the remote call, the return.
SignReturned == signCall.pc = "returned"
SignAnswered == SignReturned /\ signCall.out # Nil
Handle == Deref(signer)
SignReq == Deref(signCall.req)
SignOut == Deref(signCall.out)
SignResp == Deref(SignOut.resp)
SignRet == Deref(signCall.ret)

\* The grammar projects/P/locations/L/keyRings/R/cryptoKeys/K/cryptoKeyVersions/V
\* with P, L, R, K, V not empty and without a slash.
KeyPathGrammar(name) ==
    /\ Len(name) = 10
    /\ name = <<"projects", name[2], "locations", name[4], "keyRings", name[6],
                "cryptoKeys", name[8], "cryptoKeyVersions", name[10]>>
    /\ {name[2], name[4], name[6], name[8], name[10]} \cap {""} = {}

\* C4: SignWithContext returns a signature with a nil error only if the remote
\* call succeeded and its response has a key name equal to the handle's key
\* name, a verified flag set (verified_data_crc32c or verified_digest_crc32c;
\* which of the two is the subject of C6) and a signature_crc32c whose value
\* equals the CRC32C computed over the response's signature; the bytes
\* returned are then the response's signature.
C4_SignReturnsOnlyCheckedSignature ==
    (SignReturned /\ SignRet.err = NoError) =>
        /\ signCall.out # Nil
        /\ SignOut.err = NoError
        /\ SignResp.name = Handle.keyName
        /\ SignResp.verified_data_crc32c \/ SignResp.verified_digest_crc32c
        /\ GetValue(SignResp.signature_crc32c) = computeChecksum(SignResp.signature)
        /\ SignRet.val = SignResp.signature

\* A SignWithContext call that returned a signature of one byte or more.
C4_Witness ==
    /\ SignReturned
    /\ SignRet.err = NoError
    /\ SignRet.val = SignatureBytes
    /\ SignResp.signature_crc32c # Nil

\* C5: SignWithContext returns an error and no signature when the response's
\* key name is not the very string of the handle's key name, and when the
\* response has neither verified_data_crc32c nor verified_digest_crc32c set,
\* also when its signature and signature_crc32c agree.
C5_SignFailsOnNameOrFlags ==
    (/\ SignAnswered
     /\ SignOut.err = NoError
     /\ \/ SignResp.name # Handle.keyName
        \/ ~SignResp.verified_data_crc32c /\ ~SignResp.verified_digest_crc32c) =>
        /\ SignRet.err # NoError
        /\ SignRet.val = Nil

\* A SignWithContext call that failed on a response whose key name only
\* begins with the handle's key name and that is valid in all else.
C5_Witness ==
    /\ SignAnswered
    /\ SignOut.err = NoError
    /\ SignResp.name = KeyName1x
    /\ Handle.keyName = KeyName1
    /\ SignResp.verified_data_crc32c
    /\ SignResp.verified_digest_crc32c
    /\ SignResp.signature = SignatureBytes
    /\ SignResp.signature_crc32c = Ptr(computeChecksum(SignatureBytes))
    /\ SignRet.err = ErrSignKeyName

\* C6: SignWithContext returns a signature only if the response has the
\* verified flag of the field the request carried: verified_data_crc32c for a
\* request with data, verified_digest_crc32c for a request with a digest.
C6_SignAcceptsOnlyTheFlagOfTheFieldSent ==
    (SignReturned /\ SignRet.err = NoError) =>
        /\ SignReq.data # Nil => SignResp.verified_data_crc32c
        /\ SignReq.digest # Nil => SignResp.verified_digest_crc32c

\* C7: SignWithContext answers an input longer than 65536 bytes with the
\* size-limit error and without an AsymmetricSign call; an input of 0 to 65536
\* bytes gets no size-limit error and reaches the AsymmetricSign call.
C7_SignSizeLimit ==
    signCall.pc # "idle" =>
        IF signCall.dataLen > 65536
            THEN /\ SignReturned
                 /\ SignRet = Return(Nil, ErrDataTooLarge)
                 /\ signCall.rpcs = 0
                 /\ signCall.req = Nil
                 /\ signCall.out = Nil
            ELSE /\ signCall.rpcs = 1
                 /\ signCall.req # Nil
                 /\ SignReturned => SignRet.err # ErrDataTooLarge

\* A SignWithContext call of exactly 65536 bytes at its AsymmetricSign call.
C7_Witness ==
    /\ signCall.pc = "rpc"
    /\ Len(signCall.data) = 65536
    /\ signCall.rpcs = 1

\* C8: whatever the algorithm and the protection level of the handle, the
\* request of SignWithContext carries data and data_crc32c and no digest when
\* the algorithm is EC_SIGN_ED25519 or RSA_SIGN_RAW_PKCS1_2048/3072/4096 or the
\* protection level is EXTERNAL or EXTERNAL_VPC, and otherwise a digest and
\* digest_crc32c and no data.
C8_SignRequestCarriesDataOrDigest ==
    signCall.req # Nil =>
        IF \/ Handle.publicKey.algorithm \in
                {"EC_SIGN_ED25519", "RSA_SIGN_RAW_PKCS1_2048",
                 "RSA_SIGN_RAW_PKCS1_3072", "RSA_SIGN_RAW_PKCS1_4096"}
           \/ Handle.publicKey.protection_level \in {"EXTERNAL", "EXTERNAL_VPC"}
            THEN /\ SignReq.data # Nil
                 /\ SignReq.data_crc32c # Nil
                 /\ SignReq.digest = Nil
                 /\ SignReq.digest_crc32c = Nil
                 /\ signCall.pc = "rpc" => Deref(SignReq.data) = signCall.data
            ELSE /\ SignReq.digest # Nil
                 /\ SignReq.digest_crc32c # Nil
                 /\ SignReq.data = Nil
                 /\ SignReq.data_crc32c = Nil

\* A request with data sent for a digest algorithm on an EXTERNAL key.
C8_Witness ==
    /\ signCall.pc = "rpc"
    /\ Handle.publicKey.algorithm = "EC_SIGN_P256_SHA256"
    /\ Handle.publicKey.protection_level = "EXTERNAL"
    /\ SignReq.data = Ptr(signCall.data)
    /\ signCall.data # << >>

\* C9: NewGRPCSigner returns an error and no handle, and calls GetPublicKey
\* not once, when the key name is not of the key-path grammar (the empty name
\* is not) or the KMS client is nil.
C9_NewGRPCSignerRejectsBadArguments ==
    (/\ newSigner.pc # "idle"
     /\ ~KeyPathGrammar(newSigner.keyName) \/ newSigner.kms = Nil) =>
        /\ newSigner.pc = "returned"
        /\ newSigner.err # NoError
        /\ signer = Nil
        /\ newSigner.rpcs = 0
        /\ newSigner.req = Nil

\* NewGRPCSigner("Wrong/Key/Name", client) returned the format error.
C9_Witness ==
    /\ newSigner.pc = "returned"
    /\ newSigner.keyName = <<"Wrong", "Key", "Name">>
    /\ newSigner.kms # Nil
    /\ newSigner.err = ErrKeyNameFormat
    /\ signer = Nil

\* C10: a handle NewGRPCSigner returned has a key name of the key-path
\* grammar, the requested one; the public key it stores has that very name, a
\* checksum whose value equals the CRC32C computed over the key bytes, and a
\* supported algorithm.  When the last GetPublicKey response has another name
\* or an unsupported algorithm, NewGRPCSigner returns an error and no handle.
C10_ReturnedHandleIsValid ==
    /\ signer # Nil =>
          /\ newSigner.pc = "returned"
          /\ newSigner.err = NoError
          /\ Handle.keyName = newSigner.keyName
          /\ KeyPathGrammar(Handle.keyName)
          /\ Handle.publicKey.name = newSigner.keyName
          /\ GetValue(Handle.publicKey.public_key.crc32c_checksum)
                = computeChecksum(Handle.publicKey.public_key.data)
          /\ Handle.publicKey.algorithm \in SupportedAlgorithms
          /\ Handle.publicKey = Deref(Deref(newSigner.out).resp)
    /\ (/\ newSigner.pc = "returned"
        /\ newSigner.out # Nil
        /\ Deref(newSigner.out).err = NoError
        /\ LET response == Deref(Deref(newSigner.out).resp)
           IN \/ response.name # newSigner.keyName
              \/ response.algorithm \notin SupportedAlgorithms) =>
          /\ signer = Nil
          /\ newSigner.err # NoError

\* A handle returned after a retried fetch, with key bytes and their checksum.
C10_Witness ==
    /\ signer # Nil
    /\ Len(newSigner.tries) = 3
    /\ Handle.publicKey.public_key.data = PublicKeyBytes
    /\ Handle.publicKey.public_key.crc32c_checksum # Nil

(***************************************************************************)
(* The fetch of the public key (SignerSpec).                               *)
(***************************************************************************)
\* The error tryGetPublicKey returns for a public key whose checksum differs.
IsChecksumMismatch(err) == err # NoError /\ ErrorsIs(err, "checksum verification failed")

\* C11: one NewGRPCSigner call issues at most 3 GetPublicKey calls; a call
\* after the first is issued only when the attempt before it ended with the
\* checksum mismatch; and when all three attempts ended with the checksum
\* mismatch, NewGRPCSigner returns the checksum-verification error and no
\* handle.
C11_AtMostThreeFetchesOnlyAfterMismatch ==
    /\ newSigner.rpcs <= 3
    /\ Len(newSigner.tries) <= newSigner.rpcs
    /\ \A n \in 1..(newSigner.rpcs - 1) : IsChecksumMismatch(newSigner.tries[n])
    /\ (/\ newSigner.pc = "returned"
        /\ Len(newSigner.tries) = 3
        /\ \A n \in 1..3 : IsChecksumMismatch(newSigner.tries[n])) =>
          /\ IsChecksumMismatch(newSigner.err)
          /\ signer = Nil

\* A NewGRPCSigner call that gave up after three checksum mismatches.
C11_Witness ==
    /\ newSigner.pc = "returned"
    /\ newSigner.rpcs = 3
    /\ \A n \in 1..3 : IsChecksumMismatch(newSigner.tries[n])
    /\ signer = Nil

(***************************************************************************)
(* Properties of all operations (OperationsSpec).                          *)
(***************************************************************************)
\* C12: a call of EncryptWithContext, DecryptWithContext or SignWithContext
\* issues at most one remote call, and has issued exactly one when it returns
\* after the remote call answered, whatever the answer; a GetPublicKey call
\* that fails in transport is the last one of its NewGRPCSigner call, which
\* returns at once without a handle.
C12_NoRetryOfRemoteCalls ==
    /\ aeadCall.rpcs <= 1
    /\ signCall.rpcs <= 1
    /\ (aeadCall.pc = "returned" /\ aeadCall.out # Nil) => aeadCall.rpcs = 1
    /\ (signCall.pc = "returned" /\ signCall.out # Nil) => signCall.rpcs = 1
    /\ \A n \in DOMAIN newSigner.tries :
          (newSigner.tries[n] # NoError /\ ~IsChecksumMismatch(newSigner.tries[n])) =>
              /\ newSigner.pc = "returned"
              /\ n = Len(newSigner.tries)
              /\ newSigner.rpcs = n
              /\ newSigner.err = newSigner.tries[n]
              /\ signer = Nil

\* A NewGRPCSigner call whose second GetPublicKey call failed in transport.
C12_Witness ==
    /\ newSigner.pc = "returned"
    /\ newSigner.rpcs = 2
    /\ Len(newSigner.tries) = 2
    /\ newSigner.tries[2] = Wrap("GCP KMS GetPublicKey failed", TransportError)
    /\ Deref(newSigner.out).err = TransportError

\* C13: every operation returns either an error and no data (nil bytes, nil
\* handle), or a nil error and the data of the answer of a remote call that
\* succeeded; never an error together with payload bytes or with a handle,
\* and never success after a remote call that failed or was not made.
C13_ErrorOrDataNeverBoth ==
    /\ aeadCall.pc = "returned" =>
          /\ AeadRet.err # NoError => AeadRet.val = Nil
          /\ AeadRet.err = NoError =>
                /\ AeadOut.err = NoError
                /\ AeadRet.val = IF aeadCall.op = "Encrypt" THEN AeadResp.ciphertext
                                 ELSE AeadResp.plaintext
          /\ AeadOut.err # NoError => AeadRet.err # NoError
    /\ newSigner.pc = "returned" =>
          /\ newSigner.err # NoError <=> signer = Nil
          /\ newSigner.out = Nil => signer = Nil
          /\ (newSigner.out # Nil /\ Deref(newSigner.out).err # NoError) => signer = Nil
    /\ newSigner.pc # "returned" => signer = Nil
    /\ signCall.pc = "returned" =>
          /\ SignRet.err # NoError => SignRet.val = Nil
          /\ SignRet.err = NoError =>
                /\ signCall.out # Nil
                /\ SignOut.err = NoError
                /\ SignRet.val = SignResp.signature
          /\ (signCall.out # Nil /\ SignOut.err # NoError) => SignRet.err # NoError

\* A DecryptWithContext call that failed on a response with plaintext bytes.
C13_Witness ==
    /\ DecryptReturned
    /\ AeadOut.err = NoError
    /\ AeadResp.plaintext # << >>
    /\ AeadRet.err # NoError
    /\ AeadRet.val = Nil

\* C14: every request sent carries, for each payload field set in it, a
\* checksum field holding the CRC32C of the bytes of that field, and the bytes
\* are the caller's: plaintext and associated data of an encrypt request,
\* ciphertext and associated data of a decrypt request, data or digest bytes
\* of a sign request.
C14_RequestChecksumsCoverTheFields ==
    /\ (aeadCall.req # Nil /\ aeadCall.op = "Encrypt") =>
          /\ AeadReq.plaintext = aeadCall.input
          /\ AeadReq.additional_authenticated_data = aeadCall.associatedData
          /\ AeadReq.plaintext_crc32c = Ptr(computeChecksum(AeadReq.plaintext))
          /\ AeadReq.additional_authenticated_data_crc32c
                = Ptr(computeChecksum(AeadReq.additional_authenticated_data))
    /\ (aeadCall.req # Nil /\ aeadCall.op = "Decrypt") =>
          /\ AeadReq.ciphertext = aeadCall.input
          /\ AeadReq.additional_authenticated_data = aeadCall.associatedData
          /\ AeadReq.ciphertext_crc32c = Ptr(computeChecksum(AeadReq.ciphertext))
          /\ AeadReq.additional_authenticated_data_crc32c
                = Ptr(computeChecksum(AeadReq.additional_authenticated_data))
    /\ signCall.req # Nil =>
          /\ SignReq.data # Nil =>
                SignReq.data_crc32c = Ptr(computeChecksum(Deref(SignReq.data)))
          /\ SignReq.digest # Nil =>
                SignReq.digest_crc32c = Ptr(computeChecksum(Deref(SignReq.digest).bytes))
          /\ SignReq.data # Nil \/ SignReq.digest # Nil
          /\ (signCall.pc = "rpc" /\ SignReq.data # Nil) =>
                Deref(SignReq.data) = signCall.data

\* An encrypt request in flight whose two payload fields, and so its two
\* checksum fields, differ.
C14_Witness ==
    /\ aeadCall.pc = "rpc"
    /\ aeadCall.op = "Encrypt"
    /\ AeadReq.plaintext # << >>
    /\ AeadReq.additional_authenticated_data # << >>
    /\ AeadReq.plaintext_crc32c # AeadReq.additional_authenticated_data_crc32c

\* C15: an answer without the checksum field of the payload it returns is
\* never accepted, whatever the payload, the empty one included:
\* EncryptWithContext fails without ciphertext_crc32c, DecryptWithContext
\* without plaintext_crc32c, SignWithContext without signature_crc32c, and
\* NewGRPCSigner without the checksum of the public key.
C15_AbsentChecksumNeverAccepted ==
    /\ (/\ EncryptReturned
        /\ AeadOut.err = NoError
        /\ AeadResp.ciphertext_crc32c = Nil) => AeadRet.err # NoError
    /\ (/\ DecryptReturned
        /\ AeadOut.err = NoError
        /\ AeadResp.plaintext_crc32c = Nil) => AeadRet.err # NoError
    /\ (/\ SignAnswered
        /\ SignOut.err = NoError
        /\ SignResp.signature_crc32c = Nil) => SignRet.err # NoError
    /\ (/\ newSigner.pc = "returned"
        /\ newSigner.out # Nil
        /\ Deref(newSigner.out).err = NoError
        /\ Deref(Deref(newSigner.out).resp).public_key.crc32c_checksum = Nil) =>
          /\ newSigner.err # NoError
          /\ signer = Nil

(***************************************************************************)
(* The key name in the encrypt response (AEADSpec).                        *)
(***************************************************************************)
\* name is requested followed by some, possibly no, characters.
BeginsWith(name, requested) ==
    \E k \in 0..Len(name) :
        name = requested \o SubSeq(name, k + 1, Len(name))

\* C16: EncryptWithContext returns an error and no ciphertext whenever the
\* key name of the response does not begin with the requested key name (an
\* empty name, another name, a proper prefix of the requested name); a
\* response whose name begins with the requested key name is not refused for
\* its name, and is accepted when its flags and its checksum are right.
C16_EncryptRequiresNameWithRequestedPrefix ==
    (EncryptReturned /\ AeadOut.err = NoError) =>
        /\ ~BeginsWith(AeadResp.name, AeadReq.name) =>
              /\ AeadRet.err # NoError
              /\ AeadRet.val = Nil
        /\ BeginsWith(AeadResp.name, AeadReq.name) =>
              /\ AeadRet.err # ErrEncryptKeyName
              /\ (/\ AeadResp.verified_plaintext_crc32c
                  /\ AeadResp.verified_additional_authenticated_data_crc32c
                  /\ AeadResp.ciphertext_crc32c
                        = Ptr(computeChecksum(AeadResp.ciphertext))) =>
                    AeadRet = Return(AeadResp.ciphertext, NoError)

\* An Encrypt call for "k/1" that failed on a response named "k", a proper
\* prefix of the requested name, with flags and checksum right.
C16_Witness ==
    /\ EncryptReturned
    /\ AeadReq.name = <<"k", "/", "1">>
    /\ AeadOut.err = NoError
    /\ AeadResp.name = <<"k">>
    /\ AeadResp.verified_plaintext_crc32c
    /\ AeadResp.verified_additional_authenticated_data_crc32c
    /\ AeadResp.ciphertext_crc32c = Ptr(computeChecksum(AeadResp.ciphertext))
    /\ AeadRet.err = ErrEncryptKeyName

(***************************************************************************)
(* Transport errors (OperationsSpec).                                      *)
(***************************************************************************)
\* err is cause with one message put before it.
WrapsWithPrefix(err, cause) ==
    /\ Len(err) = Len(cause) + 1
    /\ SubSeq(err, 2, Len(err)) = cause

\* The remote call of the operation failed in transport.
AeadTransportFailed == aeadCall.pc = "returned" /\ AeadOut.err # NoError
SignTransportFailed == SignAnswered /\ SignOut.err # NoError
FetchTransportFailed ==
    /\ newSigner.pc = "returned"
    /\ newSigner.out # Nil
    /\ Deref(newSigner.out).err # NoError

\* C19 as stated: when the remote call of Encrypt, Decrypt, GetPublicKey or
\* AsymmetricSign fails in transport, the operation returns that error
\* wrapped with a prefix that names the primitive.
C19_TransportErrorWrappedByAll ==
    /\ AeadTransportFailed => WrapsWithPrefix(AeadRet.err, AeadOut.err)
    /\ SignTransportFailed => WrapsWithPrefix(SignRet.err, SignOut.err)
    /\ FetchTransportFailed => WrapsWithPrefix(newSigner.err, Deref(newSigner.out).err)

\* C19 as the code has it: a transport error of GetPublicKey is returned
\* wrapped with "GCP KMS GetPublicKey failed" and one of AsymmetricSign wrapped
\* with "GCP KMS AsymmetricSign failed"; a transport error of Encrypt or
\* Decrypt is returned as it is, without a prefix.
C19_TransportErrorWrappedBySignerOnly ==
    /\ AeadTransportFailed => AeadRet = Return(Nil, AeadOut.err)
    /\ SignTransportFailed =>
          SignRet = Return(Nil, <<"GCP KMS AsymmetricSign failed">> \o SignOut.err)
    /\ FetchTransportFailed =>
          /\ newSigner.err = <<"GCP KMS GetPublicKey failed">> \o Deref(newSigner.out).err
          /\ signer = Nil

\* A SignWithContext call that returned the wrapped transport error.
C19_Witness ==
    /\ SignTransportFailed
    /\ SignOut.err = TransportError
    /\ WrapsWithPrefix(SignRet.err, TransportError)

C17_RoundTrip ==
    /\ roundTrip.pc # "idle" => Deref(roundTrip.enc).err = NoError
    /\ roundTrip.pc = "decrypted" =>
          IF roundTrip.decryptData = roundTrip.associatedData
              THEN Deref(roundTrip.dec) = Return(roundTrip.plaintext, NoError)
              ELSE /\ Deref(roundTrip.dec).err # NoError
                   /\ Deref(roundTrip.dec).val = Nil

\* A round trip of a plaintext with associated data that gave it back.
C17_Witness ==
    /\ roundTrip.pc = "decrypted"
    /\ roundTrip.plaintext = <<97, 0>>
    /\ roundTrip.associatedData = <<0, 97>>
    /\ roundTrip.decryptData = roundTrip.associatedData
    /\ Deref(roundTrip.dec).val = <<97, 0>>

(***************************************************************************)
(* Concurrent use of a handle (ConcurrentSignSpec).                        *)
(***************************************************************************)
\* The handle as NewGRPCSigner returned it.
ConstructedHandle ==
    [keyName |-> newSigner.keyName,
     kms |-> newSigner.kms,
     publicKey |-> Deref(Deref(newSigner.out).resp)]

\* What SignWithContext returns when it runs alone on the handle h with an
\* input of dataLen bytes and the answer out of the remote call.
AloneOutcome(h, dataLen, out) ==
    IF dataLen > 65536 THEN Return(Nil, ErrDataTooLarge)
    ELSE SignWithContextResult(h, Deref(out))

\* C18: the handle stays as it was constructed, whatever SignWithContext
\* calls run on it and however they end; and with the calls of several
\* callers interleaved in any order, every call returns what it returns when
\* it runs alone with its input and its answer.
C18_HandleImmutableCallsIndependent ==
    /\ signer = Ptr(ConstructedHandle)
    /\ \A c \in SignCallers :
          signCalls[c].pc = "returned" =>
              Deref(signCalls[c].ret)
                  = AloneOutcome(ConstructedHandle, signCalls[c].dataLen, signCalls[c].out)

\* One caller's call failed on the name of its answer before the other
\* caller's call, begun earlier, succeeded.
C18_Witness ==
    /\ signCalls[1].pc = "returned"
    /\ signCalls[2].pc = "returned"
    /\ Deref(signCalls[1].ret).err = ErrSignKeyName
    /\ Deref(signCalls[2].ret) = Return(SignatureBytes, NoError)

(***************************************************************************)
(* Order of the response checks (OperationsSpec).                          *)
(***************************************************************************)
\* The checks of EncryptWithContext that the answer of the finished call
\* fails, numbered in the order plaintext flag, associated-data flag, key
\* name, ciphertext checksum; those of SignWithContext in the order key name,
\* verified flags, signature checksum.
EncryptChecksFailed ==
    {n \in 1..4 :
        \/ n = 1 /\ ~AeadResp.verified_plaintext_crc32c
        \/ n = 2 /\ ~AeadResp.verified_additional_authenticated_data_crc32c
        \/ n = 3 /\ ~BeginsWith(AeadResp.name, aead.keyURI)
        \/ n = 4 /\ GetValue(AeadResp.ciphertext_crc32c) # computeChecksum(AeadResp.ciphertext)}
SignChecksFailed ==
    {n \in 1..3 :
        \/ n = 1 /\ SignResp.name # Handle.keyName
        \/ n = 2 /\ ~SignResp.verified_data_crc32c /\ ~SignResp.verified_digest_crc32c
        \/ n = 3 /\ GetValue(SignResp.signature_crc32c) # computeChecksum(SignResp.signature)}
EncryptCheckErrors ==
    <<ErrPlaintextUnverified, ErrAADUnverified, ErrEncryptKeyName, ErrCiphertextChecksum>>
SignCheckErrors == <<ErrSignKeyName, ErrInputChecksum, ErrSignatureChecksum>>
Earliest(S) == CHOOSE n \in S : \A m \in S : n <= m

\* C22: an answer that fails one or more response checks is reported with the
\* error of the earliest failed check, in the order plaintext-verified flag,
\* associated-data-verified flag, key name, ciphertext checksum for
\* EncryptWithContext and key name, verified flags, signature checksum for
\* SignWithContext.
C22_EarliestFailedCheckIsReported ==
    /\ (EncryptReturned /\ AeadOut.err = NoError /\ EncryptChecksFailed # {}) =>
           AeadRet = Return(Nil, EncryptCheckErrors[Earliest(EncryptChecksFailed)])
    /\ (SignAnswered /\ SignOut.err = NoError /\ SignChecksFailed # {}) =>
           SignRet = Return(Nil, SignCheckErrors[Earliest(SignChecksFailed)])

\* A SignWithContext call whose answer fails all three checks and is reported
\* under the key name.
C22_Witness ==
    /\ SignAnswered
    /\ SignOut.err = NoError
    /\ SignChecksFailed = {1, 2, 3}
    /\ SignRet.err = ErrSignKeyName

(***************************************************************************)
(* What DecryptWithContext looks at (AEADSpec).                            *)
(***************************************************************************)
\* The answers that carry the plaintext and the plaintext checksum of resp.
SamePlaintextAs(resp) ==
    {other \in DecryptResponses :
        /\ other.plaintext = resp.plaintext
        /\ other.plaintext_crc32c = resp.plaintext_crc32c}

\* C23: what DecryptWithContext returns for an answer is what it returns for
\* every answer with the same plaintext and the same plaintext_crc32c,
\* whatever the other fields of the answer hold.
C23_DecryptLooksAtPlaintextAndChecksumOnly ==
    (DecryptReturned /\ AeadOut.err = NoError) =>
        \A other \in SamePlaintextAs(AeadResp) :
            DecryptWithContextResult(aead, [resp |-> Ptr(other), err |-> NoError]) = AeadRet

\* A Decrypt call that returned the plaintext of an answer which did not come
\* from the primary key version.
C23_Witness ==
    /\ DecryptReturned
    /\ AeadOut.err = NoError
    /\ ~AeadResp.used_primary
    /\ AeadRet = Return(<<97>>, NoError)

(***************************************************************************)
(* Which failures of the fetch are retried (SignerSpec).                   *)
(***************************************************************************)
\* NewGRPCSigner has returned after at least one GetPublicKey call.
FetchReturned == newSigner.pc = "returned" /\ newSigner.out # Nil
\* The last GetPublicKey call succeeded with a public key whose checksum is
\* right and whose name is not the requested one.
FetchEndedOnOtherName ==
    /\ FetchReturned
    /\ Deref(newSigner.out).err = NoError
    /\ LET response == Deref(Deref(newSigner.out).resp)
       IN /\ GetValue(response.public_key.crc32c_checksum)
                = computeChecksum(response.public_key.data)
          /\ response.name # newSigner.keyName

\* C24 as stated: a NewGRPCSigner call that returns the checksum error or the
\* key-name error has made three GetPublicKey calls.
C24_EveryIntegrityFailureRetried ==
    (/\ FetchReturned
     /\ \/ IsChecksumMismatch(newSigner.err)
        \/ newSigner.err = ErrPublicKeyName) =>
        newSigner.rpcs = 3

\* C24, amended: only the checksum mismatch is retried.  A NewGRPCSigner call
\* that returns the checksum error has made three GetPublicKey calls; a
\* response with a right checksum and another key name ends the fetch at
\* once with the key-name error, so that every call before it is one that
\* ended in a checksum mismatch.
C24_OnlyChecksumMismatchRetried ==
    /\ (FetchReturned /\ IsChecksumMismatch(newSigner.err)) => newSigner.rpcs = 3
    /\ FetchEndedOnOtherName =>
          /\ newSigner.err = ErrPublicKeyName
          /\ signer = Nil
          /\ Len(newSigner.tries) = newSigner.rpcs
          /\ newSigner.tries[newSigner.rpcs] = NoError
          /\ \A n \in 1..(newSigner.rpcs - 1) : IsChecksumMismatch(newSigner.tries[n])

\* A NewGRPCSigner call that returned the key-name error after its first
\* GetPublicKey call.
C24_Witness ==
    /\ FetchEndedOnOtherName
    /\ newSigner.err = ErrPublicKeyName
    /\ newSigner.rpcs = 1

(***************************************************************************)
(* The fetch ends with its last attempt (SignerSpec).                      *)
(***************************************************************************)
\* NewGRPCSigner returned after a GetPublicKey call that followed one or two
\* checksum mismatches.
FetchReturnedAfterMismatch ==
    /\ FetchReturned
    /\ newSigner.rpcs >= 2
    /\ \A n \in 1..(newSigner.rpcs - 1) : IsChecksumMismatch(newSigner.tries[n])
LastFetch == Deref(newSigner.out)
LastPublicKey == Deref(LastFetch.resp)
LastChecksumRight ==
    GetValue(LastPublicKey.public_key.crc32c_checksum)
        = computeChecksum(LastPublicKey.public_key.data)

\* C25: when the GetPublicKey call that follows one or two checksum
\* mismatches returns a public key with a right checksum, NewGRPCSigner goes
\* on with that key: the key-name error for another name, else the
\* unsupported-algorithm error for an algorithm outside the supported set,
\* else a handle holding that key and no error, and in none of the three the
\* checksum error of an earlier attempt; when that call fails in transport,
\* NewGRPCSigner returns the transport error, wrapped, and no handle.
C25_FetchResultIsThatOfLastAttempt ==
    FetchReturnedAfterMismatch =>
        /\ (LastFetch.err = NoError /\ LastChecksumRight) =>
              /\ ~IsChecksumMismatch(newSigner.err)
              /\ IF LastPublicKey.name # newSigner.keyName
                    THEN newSigner.err = ErrPublicKeyName /\ signer = Nil
                 ELSE IF LastPublicKey.algorithm \notin SupportedAlgorithms
                    THEN newSigner.err = ErrUnsupportedAlgorithm /\ signer = Nil
                 ELSE /\ newSigner.err = NoError
                      /\ signer = Ptr([keyName |-> newSigner.keyName,
                                       kms |-> newSigner.kms,
                                       publicKey |-> LastPublicKey])
        /\ LastFetch.err # NoError =>
              /\ newSigner.err = <<"GCP KMS GetPublicKey failed">> \o LastFetch.err
              /\ signer = Nil

\* A NewGRPCSigner call that returned a handle from its third GetPublicKey
\* call, after two checksum mismatches.
C25_Witness ==
    /\ FetchReturnedAfterMismatch
    /\ newSigner.rpcs = 3
    /\ newSigner.err = NoError
    /\ signer # Nil
    /\ Deref(signer).publicKey = LastPublicKey

(***************************************************************************)
(* Termination of the construction (ConstructionSpec).                     *)
(***************************************************************************)
\* The states of the signer: constructing while NewGRPCSigner waits for
\* kms.GetPublicKey, then ready (a handle was returned) or failed.
Constructing == newSigner.pc = "rpc"
Ready == newSigner.pc = "returned" /\ newSigner.err = NoError /\ signer # Nil
Failed == newSigner.pc = "returned" /\ newSigner.err # NoError /\ signer = Nil

\* C26: when every GetPublicKey call returns, a NewGRPCSigner call that is
\* constructing comes to ready or to failed; while constructing it has made
\* at most three fetch attempts and has returned no handle; and once returned
\* it is ready or failed, a handle existing in ready only.
C26_ConstructionTerminates ==
    /\ [](Constructing => (newSigner.rpcs \in 1..3 /\ signer = Nil))
    /\ [](newSigner.pc = "returned" => (Ready \/ Failed))
    /\ Constructing ~> (Ready \/ Failed)

\* A NewGRPCSigner call that came to failed with its third fetch attempt.
C26_Witness ==
    /\ Failed
    /\ newSigner.rpcs = 3
    /\ newSigner.i = 3

(***************************************************************************)
(* Every supported algorithm can be signed with (SignerSpec).              *)
(***************************************************************************)
\* The hash function in the name of a supported algorithm, "" when the name
\* has none, and the width of its digest in bytes.
HashInNameOf(algorithm) ==
    CASE algorithm \in {"EC_SIGN_P256_SHA256", "EC_SIGN_SECP256K1_SHA256",
                        "RSA_SIGN_PSS_2048_SHA256", "RSA_SIGN_PSS_3072_SHA256",
                        "RSA_SIGN_PSS_4096_SHA256", "RSA_SIGN_PKCS1_2048_SHA256",
                        "RSA_SIGN_PKCS1_3072_SHA256", "RSA_SIGN_PKCS1_4096_SHA256"}
             -> "SHA256"
      [] algorithm = "EC_SIGN_P384_SHA384" -> "SHA384"
      [] algorithm \in {"RSA_SIGN_PSS_4096_SHA512", "RSA_SIGN_PKCS1_4096_SHA512"}
             -> "SHA512"
      [] OTHER -> ""
DigestWidth(hash) ==
    CASE hash = "SHA256" -> 32 [] hash = "SHA384" -> 48 [] hash = "SHA512" -> 64

\* C27: every supported algorithm, at every protection level, either requires
\* the data itself or has a digest hash function, the one in its name; a
\* SignWithContext call on a handle, with
\* an input within the size limit, gets as far as its remote call; and a
\* digest in the request is tagged with the hash function in the name of the
\* handle's algorithm and has that function's width.
C27_SupportedAlgorithmsBuildRequests ==
    /\ \A algorithm \in SupportedAlgorithms, protectionLevel \in ProtectionLevels :
          \/ requiresDataForSign(algorithm, protectionLevel)
          \/ digestHashForAlgorithm(algorithm)
                 = [hash |-> HashInNameOf(algorithm), err |-> NoError]
    /\ (signCall.pc # "idle" /\ signCall.dataLen <= 65536) =>
          /\ signCall.req # Nil
          /\ signCall.rpcs = 1
          /\ SignReq.digest # Nil =>
                LET digest == Deref(SignReq.digest)
                    hash == HashInNameOf(Handle.publicKey.algorithm)
                IN /\ hash # ""
                   /\ digest.kind = hash
                   /\ Len(digest.bytes) = DigestWidth(hash)

\* A SignWithContext call that sends a SHA-384 digest for a P-384 key.
C27_Witness ==
    /\ signCall.pc = "rpc"
    /\ Handle.publicKey.algorithm = "EC_SIGN_P384_SHA384"
    /\ SignReq.digest # Nil
    /\ Deref(SignReq.digest).kind = "SHA384"
    /\ Len(Deref(SignReq.digest).bytes) = 48

(***************************************************************************)
(* Properties of the Client (ClientSpec).                                  *)
(***************************************************************************)
\* NewClient has returned; GetAEAD or GetAEADWithContext has returned; what
\* the latter returned.
ClientReturned == client.pc # "idle"
Got == Deref(client.got)
GetAEADReturned == client.got # Nil /\ Got.fn = "GetAEAD"
GetAEADWithContextReturned == client.got # Nil /\ Got.fn = "GetAEADWithContext"

\* s begins with the ten characters of the scheme marker, each letter in
\* either case.
MarkerInAnyCase(s) ==
    /\ Len(s) >= 10
    /\ \A n \in 1..10 : s[n] \in {gcpPrefix[n], UpperPrefix[n]}

C29_KeyNameIsKeyURIWithoutMarker ==
    (client.got # Nil /\ Got.aead # Nil) =>
        /\ MarkerInAnyCase(Got.keyURI)
        /\ Deref(Got.aead).keyURI = SubSeq(Got.keyURI, 11, Len(Got.keyURI))

\* The transport of the last WithTransport among the caller's options, gRPC
\* when the caller gave none.
LastTransport(opts) ==
    LET given == {n \in DOMAIN opts : opts[n].option = "WithTransport"}
    IN IF given = {} THEN 1
       ELSE opts[CHOOSE n \in given : \A m \in given : m <= n].transport

\* C30: a client that NewClient returns has exactly one backend, the gRPC one
\* when the last transport option applied is gRPC (none given: gRPC) and the
\* REST one when it is REST; for any other transport value NewClient returns
\* the invalid-transport error and no client; GetAEAD never returns the 'no
\* client present' error; and GetAEADWithContext returns an AEAD only with
\* the gRPC backend.
C30_ExactlyOneBackend ==
    /\ (ClientReturned /\ client.c # Nil) =>
          LET c == Deref(client.c)
          IN /\ (c.grpcKMS # Nil) # (c.restKMS # Nil)
             /\ c.grpcKMS # Nil <=> LastTransport(client.opts) = 1
             /\ c.restKMS # Nil <=> LastTransport(client.opts) = 2
    /\ (ClientReturned /\ MarkerInAnyCase(client.uriPrefix)
                       /\ LastTransport(client.opts) \notin {1, 2}) =>
          client.c = Nil /\ client.err = ErrInvalidTransport
    /\ GetAEADReturned => Got.err # ErrNoClient
    /\ (GetAEADWithContextReturned /\ Got.aead # Nil) =>
          /\ client.c # Nil
          /\ Deref(client.c).grpcKMS # Nil
          /\ LastTransport(client.opts) = 1
    /\ (GetAEADWithContextReturned /\ client.c # Nil
                                   /\ Deref(client.c).grpcKMS = Nil) =>
          Got.aead = Nil /\ Got.err = ErrGRPCOnly

\* A client created with WithTransport(TransportGRPC) followed by
\* WithTransport(TransportREST): it has the REST backend only and GetAEAD
\* returned a gcpAEAD.
C30_Witness ==
    /\ GetAEADReturned
    /\ client.opts = <<WithTransport(1), WithTransport(2)>>
    /\ Deref(client.c).restKMS # Nil
    /\ Deref(client.c).grpcKMS = Nil
    /\ Got.aead # Nil
    /\ Deref(Got.aead).type = "gcpAEAD"

(***************************************************************************)
(* Properties of gcpAEAD (GcpAEADSpec).                                    *)
(***************************************************************************)
GcpReq == Deref(gcpCall.req)
GcpOut == Deref(gcpCall.out)
GcpResp == Deref(GcpOut.resp)
GcpRet == Deref(gcpCall.ret)
\* The gcpAEAD call returned after an answer that passes its checks.
GcpEncryptAccepted ==
    /\ gcpCall.pc = "returned" /\ gcpCall.op = "Encrypt" /\ gcpCall.out # Nil
    /\ GcpOut.err = NoError
    /\ GcpResp.verified_plaintext_crc32c
    /\ GcpResp.ciphertext_crc32c = Ptr(computeChecksum(GcpResp.ciphertext))
GcpDecryptAccepted ==
    /\ gcpCall.pc = "returned" /\ gcpCall.op = "Decrypt" /\ gcpCall.out # Nil
    /\ GcpOut.err = NoError
    /\ GcpResp.plaintext_crc32c = Ptr(computeChecksum(GcpResp.plaintext))

\* C28: the request of gcpAEAD.Encrypt carries the caller's plaintext and
\* associated data, each with its checksum, and for an answer that passes the
\* checks Encrypt returns the ciphertext of the answer and no error;
\* gcpAEAD.Decrypt returns the plaintext of such an answer.
C28_GcpAEADSendsInputReturnsAnswer ==
    /\ (gcpCall.op = "Encrypt" /\ gcpCall.req # Nil) =>
          /\ GcpReq.plaintext = gcpCall.input
          /\ GcpReq.plaintext_crc32c = Ptr(computeChecksum(gcpCall.input))
          /\ GcpReq.additional_authenticated_data = gcpCall.associatedData
          /\ GcpReq.additional_authenticated_data_crc32c
                = Ptr(computeChecksum(gcpCall.associatedData))
    /\ GcpEncryptAccepted => GcpRet = GcpReturn(GcpResp.ciphertext, NoError)
    /\ GcpDecryptAccepted => GcpRet = GcpReturn(GcpResp.plaintext, NoError)

====
